---- MODULE Spec2Model ----
(***************************************************************************)
(* WplacePixelConverter: the colour-quantisation and dithering core        *)
(* (dithering.js, utils.js) as a state machine.                            *)
(*                                                                         *)
(* Numbers.  A JavaScript number that the dithering code computes is       *)
(* modelled as an exact rational <<n, d>> (d > 0, lowest terms).  For the  *)
(* kernels whose denominator is a power of two and for integer inputs the  *)
(* doubles the code computes are exactly these rationals; for Jarvis (48)  *)
(* and Stucki (42) the rational is the value the double rounds.            *)
(* The sRGB -> Lab conversion is computed in fixed point (see the scales   *)
(* LinScale, XyzScale, FScale, LabScale); Math.pow(u, 2.4) is tabulated at *)
(* the integer channel values and Math.cbrt is an integer cube root.       *)
(***************************************************************************)
EXTENDS Integers, Sequences, FiniteSets, TLC

(***************************************************************************)
(* JavaScript number arithmetic on exact rationals                         *)
(***************************************************************************)
Abs(n) == IF n < 0 THEN -n ELSE n

RECURSIVE GCD(_, _)
GCD(a, b) == IF b = 0 THEN a ELSE GCD(b, a % b)

\* n / d in lowest terms with a positive denominator
Rat(n, d) ==
  LET s == IF d < 0 THEN -1 ELSE 1
      g == GCD(Abs(n), Abs(d))
  IN  <<(s * n) \div g, (s * d) \div g>>

RInt(n) == <<n, 1>>

\* a + b; the common denominator is the least common multiple
RatAdd(a, b) ==
  LET g == GCD(a[2], b[2])
      l == (a[2] \div g) * b[2]
  IN  Rat(a[1] * (l \div a[2]) + b[1] * (l \div b[2]), l)

RatNeg(a) == <<-a[1], a[2]>>

RatSub(a, b) == RatAdd(a, RatNeg(b))

\* a * b, cancelling crosswise before multiplying
RatMul(a, b) ==
  LET g1 == GCD(Abs(a[1]), b[2])
      g2 == GCD(Abs(b[1]), a[2])
      h1 == IF g1 = 0 THEN 1 ELSE g1
      h2 == IF g2 = 0 THEN 1 ELSE g2
  IN  Rat((a[1] \div h1) * (b[1] \div h2), (a[2] \div h2) * (b[2] \div h1))

\* a / k for an integer k > 0
RatDivInt(a, k) == RatMul(a, <<1, k>>)

\* a < b, compared over the least common denominator
RatLess(a, b) ==
  LET g == GCD(a[2], b[2])
  IN  a[1] * (b[2] \div g) < b[1] * (a[2] \div g)

RatMax(a, b) == IF RatLess(a, b) THEN b ELSE a

RatMin(a, b) == IF RatLess(b, a) THEN b ELSE a

\* Math.floor of a rational
RatFloor(a) == a[1] \div a[2]

\* x | 0 : truncation toward zero (the values used are far inside 32 bits)
ToInt32(a) == IF a[1] < 0 THEN -((-a[1]) \div a[2]) ELSE a[1] \div a[2]

(***************************************************************************)
(* utils.js: clamp                                                         *)
(***************************************************************************)
\* clamp without the lower limit: what ChannelsClamped rules out
clampUpperOnly(value, min, max) == RatMin(value, max)

clamp(value, min, max) == RatMin(RatMax(value, min), max)

(***************************************************************************)
(* utils.js: sRGB -> XYZ -> Lab, in fixed point                            *)
(***************************************************************************)
\* srgbToLinear(c) * LinScale for c = 0, 1, ..., 300, rounded
SrgbLinearTable ==
  <<
     0, 3, 6, 9, 12, 15, 18, 21, 24, 27, 30, 33,
     37, 40, 44, 48, 52, 56, 60, 65, 70, 75, 80, 86,
     91, 97, 103, 110, 116, 123, 130, 137, 144, 152, 160, 168,
     176, 185, 194, 203, 212, 222, 232, 242, 252, 262, 273, 284,
     296, 307, 319, 331, 343, 356, 369, 382, 395, 409, 423, 437,
     452, 467, 482, 497, 513, 529, 545, 561, 578, 595, 612, 630,
     648, 666, 685, 704, 723, 742, 762, 782, 802, 823, 844, 865,
     887, 908, 931, 953, 976, 999, 1022, 1046, 1070, 1095, 1119, 1144,
     1170, 1195, 1221, 1248, 1274, 1301, 1329, 1356, 1384, 1413, 1441, 1470,
     1500, 1529, 1559, 1590, 1620, 1651, 1683, 1714, 1746, 1779, 1812, 1845,
     1878, 1912, 1946, 1981, 2016, 2051, 2086, 2122, 2159, 2195, 2232, 2270,
     2307, 2346, 2384, 2423, 2462, 2502, 2542, 2582, 2623, 2664, 2705, 2747,
     2789, 2831, 2874, 2918, 2961, 3005, 3050, 3095, 3140, 3185, 3231, 3278,
     3325, 3372, 3419, 3467, 3515, 3564, 3613, 3663, 3712, 3763, 3813, 3864,
     3916, 3968, 4020, 4072, 4125, 4179, 4233, 4287, 4342, 4397, 4452, 4508,
     4564, 4621, 4678, 4735, 4793, 4851, 4910, 4969, 5029, 5089, 5149, 5210,
     5271, 5333, 5395, 5457, 5520, 5583, 5647, 5711, 5776, 5841, 5906, 5972,
     6038, 6105, 6172, 6240, 6308, 6376, 6445, 6514, 6584, 6654, 6724, 6795,
     6867, 6939, 7011, 7084, 7157, 7231, 7305, 7379, 7454, 7529, 7605, 7682,
     7758, 7835, 7913, 7991, 8070, 8148, 8228, 8308, 8388, 8469, 8550, 8632,
     8714, 8796, 8879, 8963, 9047, 9131, 9216, 9301, 9387, 9473, 9560, 9647,
     9734, 9823, 9911, 10000, 10089, 10179, 10270, 10361, 10452, 10544, 10636, 10729,
     10822, 10915, 11010, 11104, 11199, 11295, 11391, 11487, 11584, 11682, 11780, 11878,
     11977, 12076, 12176, 12276, 12377, 12478, 12580, 12682, 12785, 12888, 12992, 13096,
     13201, 13306, 13412, 13518, 13624, 13731, 13839, 13947, 14056, 14165, 14274, 14384,
     14495
  >>

\* srgbToLinear of a rational channel value, times 10^4.  Below 0 the code is
\* on its linear branch cs / 12.92 (cs = c / 255); from 0 on the tabulated
\* value, interpolated linearly between integer channel values.
srgbToLinear(c) ==
  LET k == RatFloor(c)
      r == c[1] % c[2]
      top == Len(SrgbLinearTable) - 1
  IN  IF c[1] < 0 THEN (c[1] * 10000) \div (c[2] * 3295)
      ELSE IF k >= top THEN
             SrgbLinearTable[top + 1]
               + (SrgbLinearTable[top + 1] - SrgbLinearTable[top]) * (k - top)
      ELSE SrgbLinearTable[k + 1]
             + ((SrgbLinearTable[k + 2] - SrgbLinearTable[k + 1]) * r) \div c[2]

\* XYZ times 10^5; the matrix coefficients are the code's, times 10^5
rgbToXyz(r, g, b) ==
  LET R == srgbToLinear(r)
      G == srgbToLinear(g)
      B == srgbToLinear(b)
  IN  << (R * 41246 + G * 35758 + B * 18044) \div 10000,
         (R * 21267 + G * 71515 + B * 7218) \div 10000,
         (R * 1933 + G * 11919 + B * 95030) \div 10000 >>

RECURSIVE CbrtSearch(_, _, _)
CbrtSearch(v, lo, hi) ==
  IF lo >= hi THEN lo
  ELSE LET mid == (lo + hi + 1) \div 2
       IN  IF mid * mid * mid <= v THEN CbrtSearch(v, mid, hi)
           ELSE CbrtSearch(v, lo, mid - 1)

\* Math.cbrt(t) * 10^5 for t given times 10^5 (0 < t < 2.1): the integer cube
\* root of t * 10^9, refined linearly between consecutive cubes
Cbrt(t5) ==
  LET v == t5 * 10000
      k == CbrtSearch(v, 0, 1290)
  IN  k * 100 + ((v - k * k * k) * 100) \div (3 * k * k + 3 * k + 1)

\* one of fx, fy, fz, times 10^5: eps = 216/24389 = 0.008856, k = 24389/27
LabF(t5) ==
  IF t5 > 885 THEN Cbrt(t5) ELSE ((9033 * t5) \div 10 + 1600000) \div 116

\* Lab times 10^2; Xn = 0.95047, Yn = 1, Zn = 1.08883
xyzToLab(x, y, z) ==
  LET fx == LabF((x * 10000) \div 9505)
      fy == LabF(y)
      fz == LabF((z * 10000) \div 10888)
  IN  << (116 * fy - 1600000) \div 1000,
         (500 * (fx - fy)) \div 1000,
         (200 * (fy - fz)) \div 1000 >>

rgbToLab(rgb) ==
  LET xyz == rgbToXyz(rgb[1], rgb[2], rgb[3])
  IN  xyzToLab(xyz[1], xyz[2], xyz[3])

deltaE76(lab1, lab2) ==
  LET dL == lab1[1] - lab2[1]
      da == lab1[2] - lab2[2]
      db == lab1[3] - lab2[3]
  IN  dL * dL + da * da + db * db


(***************************************************************************)
(* utils.js: findClosestColorInPalette                                     *)
(***************************************************************************)
Black == <<RInt(0), RInt(0), RInt(0)>>

\* the running minimum of the search loops starts at Infinity
Infinity == [inf |-> TRUE, v |-> RInt(0)]

Finite(d) == [inf |-> FALSE, v |-> d]

\* the comparison as d <= minDistance: what LookupMinimalFirst rules out
NumLessOrEqual(d, minDistance) ==
  IF minDistance.inf THEN TRUE ELSE ~RatLess(minDistance.v, d)

\* d < minDistance for a finite d
NumLess(d, minDistance) ==
  IF minDistance.inf THEN TRUE ELSE RatLess(d, minDistance.v)

\* for (...) { if (d < minDistance) { minDistance = d; closest = i } }
\* over the distances ds, from index i on; indices are 1-based here
RECURSIVE ClosestLoop(_, _, _, _)
ClosestLoop(ds, i, minDistance, best) ==
  IF i > Len(ds) THEN best
  ELSE IF NumLess(ds[i], minDistance)
       THEN ClosestLoop(ds, i + 1, Finite(ds[i]), i)
       ELSE ClosestLoop(ds, i + 1, minDistance, best)

Sq(a) == RatMul(a, a)

\* dr*dr + dg*dg + db*db
RgbDistance(color, pixel) ==
  RatAdd(RatAdd(Sq(RatSub(color[1], pixel[1])), Sq(RatSub(color[2], pixel[2]))),
         Sq(RatSub(color[3], pixel[3])))

\* the redmean distance with the weights of red and blue exchanged: what
\* CompuphaseRanking rules out
CompuphaseDistanceSwappedWeights(color, pixel) ==
  LET pr == ToInt32(pixel[1])
      pg == ToInt32(pixel[2])
      pb == ToInt32(pixel[3])
      r == ToInt32(color[1])
      g == ToInt32(color[2])
      b == ToInt32(color[3])
      rmean == (r + pr) \div 2
      rdiff == r - pr
      gdiff == g - pg
      bdiff == b - pb
      xx == ((767 - rmean) * rdiff * rdiff) \div 256
      yy == 4 * gdiff * gdiff
      zz == ((512 + rmean) * bdiff * bdiff) \div 256
  IN  xx + yy + zz

\* the redmean distance, in the integers the code computes; >> 8 is \div 256
CompuphaseDistance(color, pixel) ==
  LET pr == ToInt32(pixel[1])
      pg == ToInt32(pixel[2])
      pb == ToInt32(pixel[3])
      r == ToInt32(color[1])
      g == ToInt32(color[2])
      b == ToInt32(color[3])
      rmean == (r + pr) \div 2
      rdiff == r - pr
      gdiff == g - pg
      bdiff == b - pb
      xx == ((512 + rmean) * rdiff * rdiff) \div 256
      yy == 4 * gdiff * gdiff
      zz == ((767 - rmean) * bdiff * bdiff) \div 256
  IN  xx + yy + zz

Returned(color) == [threw |-> FALSE, color |-> color]

\* an uncaught TypeError
Threw == [threw |-> TRUE, color |-> Black]

\* palette.map((c) => rgbToLab(c))
PaletteLabs(colors) == [i \in 1..Len(colors) |-> rgbToLab(colors[i])]

\* The first definition (with the distance modes).  colors is the content of
\* the palette array, labs the Lab values the lookup ranks by: the cached ones
\* when the cache holds the palette, freshly computed ones otherwise.
findClosestColorInPalette(pixel, colors, mode, labs) ==
  IF Len(colors) = 0 THEN Returned(Black)
  ELSE IF mode = "rgb" THEN
    Returned(colors[ClosestLoop([i \in 1..Len(colors) |-> RgbDistance(colors[i], pixel)],
                                1, Infinity, 1)])
  ELSE IF mode = "compuphase" THEN
    Returned(colors[ClosestLoop(
                      [i \in 1..Len(colors) |-> RInt(CompuphaseDistance(colors[i], pixel))],
                      1, Infinity, 1)])
  ELSE
    LET plab == rgbToLab(pixel)
        bestIdx == ClosestLoop([i \in 1..Len(labs) |-> RInt(deltaE76(plab, labs[i]))],
                               1, Infinity, 1)
    IN  IF bestIdx > Len(colors) THEN Threw ELSE Returned(colors[bestIdx])

\* The second definition (plain RGB distance, no guard): with an empty palette
\* closestColor is undefined and [...closestColor] raises a TypeError.
findClosestColorInPalette2(pixel, colors) ==
  IF Len(colors) = 0 THEN Threw
  ELSE Returned(colors[ClosestLoop([i \in 1..Len(colors) |-> RgbDistance(colors[i], pixel)],
                                   1, Infinity, 1)])

(***************************************************************************)
(* dithering.js: kernel tables (left-to-right form) and denominators       *)
(***************************************************************************)
\* { dx, dy, w } with the weight as given (a number)
NW(dx, dy, w) == [dx |-> dx, dy |-> dy, w |-> w]

\* { dx, dy, w } with an integer weight
N(dx, dy, w) == NW(dx, dy, RInt(w))

JarvisRight ==
  << N(1, 0, 7), N(2, 0, 5),
     N(-2, 1, 3), N(-1, 1, 5), N(0, 1, 7), N(1, 1, 5), N(2, 1, 3),
     N(-2, 2, 1), N(-1, 2, 3), N(0, 2, 5), N(1, 2, 3), N(2, 2, 1) >>

StuckiRight ==
  << N(1, 0, 8), N(2, 0, 4),
     N(-2, 1, 2), N(-1, 1, 4), N(0, 1, 8), N(1, 1, 4), N(2, 1, 2),
     N(-2, 2, 1), N(-1, 2, 2), N(0, 2, 4), N(1, 2, 2), N(2, 2, 1) >>

BurkesRight ==
  << N(1, 0, 8), N(2, 0, 4),
     N(-2, 1, 2), N(-1, 1, 4), N(0, 1, 8), N(1, 1, 4), N(2, 1, 2) >>

AtkinsonRight ==
  << N(1, 0, 1), N(2, 0, 1), N(-1, 1, 1), N(0, 1, 1), N(1, 1, 1), N(0, 2, 1) >>

SierraLiteRight == << N(1, 0, 2), N(-1, 1, 1), N(0, 1, 1) >>

Sierra2Right ==
  << N(1, 0, 4), N(2, 0, 3),
     N(-2, 1, 1), N(-1, 1, 2), N(0, 1, 3), N(1, 1, 2), N(2, 1, 1) >>

\* the Sierra-3 table with 6 for the weight of the target below, 33 in all for
\* the denominator 32: what WeightSums rules out
Sierra3RightHeavy ==
  << N(1, 0, 5), N(2, 0, 3),
     N(-2, 1, 2), N(-1, 1, 4), N(0, 1, 6), N(1, 1, 4), N(2, 1, 2),
     N(-1, 2, 2), N(0, 2, 3), N(1, 2, 2) >>

Sierra3Right ==
  << N(1, 0, 5), N(2, 0, 3),
     N(-2, 1, 2), N(-1, 1, 4), N(0, 1, 5), N(1, 1, 4), N(2, 1, 2),
     N(-1, 2, 2), N(0, 2, 3), N(1, 2, 2) >>

\* const left = right.map((n) => ({ dx: -n.dx, dy: n.dy, w: n.w }))
\* the left table being the right one unmirrored: what SerpentineSymmetry
\* rules out
MirrorTableKeepingDx(right) == right

MirrorTable(right) ==
  [i \in 1..Len(right) |-> [dx |-> -right[i].dx, dy |-> right[i].dy, w |-> right[i].w]]

\* the left-to-right table with the weights of the targets below left and
\* below exchanged: what FloydSteinbergIsEngine rules out
FloydSteinbergRightSwapped ==
  << NW(1, 0, Rat(7, 16)), NW(-1, 1, Rat(5, 16)), NW(0, 1, Rat(3, 16)),
     NW(1, 1, Rat(1, 16)) >>

\* the tables written out in applyFloydSteinbergDithering; the weights are
\* the fractions 7/16, 3/16, 5/16, 1/16
FloydSteinbergRight ==
  << NW(1, 0, Rat(7, 16)), NW(-1, 1, Rat(3, 16)), NW(0, 1, Rat(5, 16)),
     NW(1, 1, Rat(1, 16)) >>

\* a right-to-left table whose diagonal entries were left unmirrored: what
\* KernelTables rules out
FloydSteinbergLeftHalfMirrored ==
  << NW(-1, 0, Rat(7, 16)), NW(-1, 1, Rat(3, 16)), NW(0, 1, Rat(5, 16)),
     NW(1, 1, Rat(1, 16)) >>

FloydSteinbergLeft ==
  << NW(-1, 0, Rat(7, 16)), NW(1, 1, Rat(3, 16)), NW(0, 1, Rat(5, 16)),
     NW(-1, 1, Rat(1, 16)) >>

ErrorDiffuseMethods ==
  {"jarvis", "stucki", "burkes", "atkinson", "sierra_lite", "sierra2", "sierra3"}

weightsRight(m) ==
  CASE m = "jarvis" -> JarvisRight
    [] m = "stucki" -> StuckiRight
    [] m = "burkes" -> BurkesRight
    [] m = "atkinson" -> AtkinsonRight
    [] m = "sierra_lite" -> SierraLiteRight
    [] m = "sierra2" -> Sierra2Right
    [] m = "sierra3" -> Sierra3Right

\* the left-to-right table taken for the right-to-left rows as well: what
\* TargetsAhead rules out
weightsLeftUnmirrored(m) == weightsRight(m)

weightsLeft(m) == MirrorTable(weightsRight(m))

denom(m) ==
  CASE m = "jarvis" -> 48
    [] m = "stucki" -> 42
    [] m = "burkes" -> 32
    [] m = "atkinson" -> 8
    [] m = "sierra_lite" -> 4
    [] m = "sierra2" -> 16
    [] m = "sierra3" -> 32

\* the threshold matrices of applyBayerDithering and applyHalftoneDithering
BayerMat ==
  << <<0, 8, 2, 10>>, <<12, 4, 14, 6>>, <<3, 11, 1, 9>>, <<15, 7, 13, 5>> >>

HalftoneMat ==
  << <<24, 3, 19, 8, 25, 4, 20, 9>>,
     <<12, 43, 52, 35, 11, 44, 53, 36>>,
     <<18, 51, 60, 42, 17, 50, 59, 41>>,
     <<7, 34, 40, 58, 6, 33, 39, 57>>,
     <<26, 5, 21, 10, 27, 2, 22, 1>>,
     <<13, 45, 54, 37, 14, 46, 55, 38>>,
     <<16, 49, 58, 40, 15, 48, 57, 39>>,
     <<1, 32, 38, 56, 0, 31, 37, 55>> >>

\* the Bayer matrix normalised without the shift by 0.5: what OrderedOffsetAdded
\* rules out
BayerNormUncentred(yy, xx) == Rat(BayerMat[(yy % 4) + 1][(xx % 4) + 1], 16)

\* norm[y % 4][x % 4] = v / 16 - 0.5
BayerNorm(yy, xx) == RatSub(Rat(BayerMat[(yy % 4) + 1][(xx % 4) + 1], 16), Rat(1, 2))

\* norm[y % 8][x % 8] = v / 64 - 0.5
HalftoneNorm(yy, xx) == RatSub(Rat(HalftoneMat[(yy % 8) + 1][(xx % 8) + 1], 64), Rat(1, 2))

(***************************************************************************)
(* The state                                                               *)
(***************************************************************************)
VARIABLES
  paletteHeap,      \* palette array object -> its current content (a sequence of colours)
  paletteLabCache,  \* _paletteLabCache: palette array object -> [has, labs]
  pc,               \* "idle", "scan" (inside a dithering pass), "done"
  args,             \* the running pass: method, palette, strength, intensity,
                    \*   alphaThreshold, serpentine, progressCallback
  rgbChannels,      \* the caller's RGB grid [y][x] -> <<r, g, b>>
  alphaChannel,     \* the caller's alpha grid [y][x]
  out,              \* the pass's working grid, returned at the end
  y, x,             \* the loop variables of the scan
  progress,         \* the values passed to progressCallback so far
  entry,            \* the arguments' contents when the pass was entered, and whether
                    \*   the cache held the palette then
  rowStart,         \* the working grid when the current row was entered
  visits,           \* the pixels <<y, x>> the pass has looked up so far, in order
  aliased,          \* the pixels <<y, x>> of out whose array is a palette entry's array
  lookup,           \* the last direct call of a findClosestColorInPalette and its outcome
  prev,             \* an earlier completed pass of the session: its inputs and its result
  srcImageData,     \* app.js: Null or the image data of the file loaded last
  outputImageData,  \* app.js: Null or what the last process() run stored
  customPalette,    \* app.js: the hex colours of the custom palette
  viewState,        \* app.js: zoom, offsetX, offsetY
  downloadBtnDisabled, \* app.js: els.downloadBtn.disabled
  inFlight,         \* the files whose load has not completed, in the order of selection
  lastSelected,     \* the file selected last and what became of its load
  paletteType,      \* els.paletteType.value
  paletteDialog,    \* els.paletteDialog: whether it is open, and the checked boxes
  live,             \* els.live.checked
  settings,         \* the values of the controls process() reads
  zip               \* the files handed to zipFiles and the archive it returned

passVars ==
  << args, rgbChannels, alphaChannel, out, y, x, progress, entry, rowStart, visits, aliased >>

appVars ==
  << srcImageData, outputImageData, customPalette, viewState, downloadBtnDisabled,
     inFlight, lastSelected, paletteType, paletteDialog, live, settings >>

coreVars == << paletteHeap, paletteLabCache, pc, passVars, lookup, prev >>

vars == << coreVars, appVars, zip >>

(***************************************************************************)
(* Grids                                                                   *)
(***************************************************************************)
\* rgbChannels.length and rgbChannels[0].length
Height(g) == Cardinality(DOMAIN g)

Width(g) == Cardinality(DOMAIN g[0])

h == Height(rgbChannels)

w == Width(rgbChannels)

\* the working grid being rgbChannels itself: what InputsUnchanged rules out
OutIsInput == FALSE

\* const out = rgbChannels.map((row) => row.map((p) => [...p])): the working
\* grid is a copy, so a write to it is not a write to rgbChannels
OutIsCopy == TRUE

(***************************************************************************)
(* dithering.js: the scan                                                  *)
(***************************************************************************)
DiffusionMethods == ErrorDiffuseMethods \cup {"floyd_steinberg"}

\* the odd rows running left to right and the even rows right to left: what
\* ScanOrder rules out
leftToRightOnOddRows(yy) ==
  IF args.method \in {"floyd_steinberg", "jarvis", "stucki", "burkes", "atkinson",
                      "sierra_lite", "sierra2", "sierra3"} /\ args.serpentine
  THEN yy % 2 = 1 ELSE TRUE

\* const leftToRight = serpentine ? y % 2 === 0 : true; the ordered, random
\* and no-dither passes always run x = 0 .. w - 1
leftToRight(yy) ==
  IF args.method \in DiffusionMethods /\ args.serpentine THEN yy % 2 = 0 ELSE TRUE

xStart(yy) == IF leftToRight(yy) THEN 0 ELSE w - 1

xEnd(yy) == IF leftToRight(yy) THEN w ELSE -1

xStep(yy) == IF leftToRight(yy) THEN 1 ELSE -1

\* alphaChannel[y][x] < alphaThreshold: the pixel is skipped
BelowThreshold(al, yy, xx) == al[yy][xx] < args.alphaThreshold

\* a cache of one slot shared by all palettes: what Determinism rules out
LabsUsedSharedSlot(pal) ==
  IF \E q \in DOMAIN paletteLabCache : paletteLabCache[q].has
  THEN paletteLabCache[CHOOSE q \in DOMAIN paletteLabCache : paletteLabCache[q].has].labs
  ELSE PaletteLabs(paletteHeap[pal])

\* the Lab values computed anew at every lookup: what CacheKeyedByIdentity
\* rules out
LabsUsedFresh(pal) == PaletteLabs(paletteHeap[pal])

\* let labs = _paletteLabCache.get(palette); if (!labs) labs = palette.map(...)
LabsUsed(pal) ==
  IF paletteLabCache[pal].has THEN paletteLabCache[pal].labs
  ELSE PaletteLabs(paletteHeap[pal])

\* _paletteLabCache.set(palette, labs) on a Lab lookup that found no entry
CacheAfterLookup(pal, mode) ==
  IF Len(paletteHeap[pal]) = 0 \/ mode \in {"rgb", "compuphase"} \/ paletteLabCache[pal].has
  THEN paletteLabCache
  ELSE [paletteLabCache EXCEPT ![pal] = [has |-> TRUE, labs |-> PaletteLabs(paletteHeap[pal])]]

\* the passes call findClosestColorInPalette(pixel, palette): mode is "lab"
Lookup(p) ==
  findClosestColorInPalette(p, paletteHeap[args.palette], "lab", LabsUsed(args.palette))

\* DiffuseTarget wrapping around the edges of the grid instead of dropping the
\* target: what SinglePixelNearest rules out
DiffuseTargetWrapping(o, al, n, xx, yy, err) ==
  LET nx == (xx + n.dx) % Width(o)
      ny == (yy + n.dy) % Height(o)
  IN  IF BelowThreshold(al, ny, nx) THEN o
      ELSE [o EXCEPT ![ny][nx] =
              << clamp(RatAdd(@[1], RatMul(err[1], n.w)), RInt(0), RInt(255)),
                 clamp(RatAdd(@[2], RatMul(err[2], n.w)), RInt(0), RInt(255)),
                 clamp(RatAdd(@[3], RatMul(err[3], n.w)), RInt(0), RInt(255)) >>]

\* DiffuseTarget without the alpha test on the target: what AlphaPassThrough
\* rules out
DiffuseTargetIgnoringAlpha(o, al, n, xx, yy, err) ==
  LET nx == xx + n.dx
      ny == yy + n.dy
  IN  IF nx < 0 \/ nx >= Width(o) \/ ny < 0 \/ ny >= Height(o) THEN o
      ELSE [o EXCEPT ![ny][nx] =
              << clamp(RatAdd(@[1], RatMul(err[1], n.w)), RInt(0), RInt(255)),
                 clamp(RatAdd(@[2], RatMul(err[2], n.w)), RInt(0), RInt(255)),
                 clamp(RatAdd(@[3], RatMul(err[3], n.w)), RInt(0), RInt(255)) >>]

\* DiffuseTarget giving the share of a target outside the grid to the nearest
\* pixel of the grid: what DroppedError rules out
DiffuseTargetClampingToEdge(o, al, n, xx, yy, err) ==
  LET nx == IF xx + n.dx < 0 THEN 0
            ELSE IF xx + n.dx >= Width(o) THEN Width(o) - 1 ELSE xx + n.dx
      ny == IF yy + n.dy >= Height(o) THEN Height(o) - 1 ELSE yy + n.dy
  IN  IF BelowThreshold(al, ny, nx) THEN o
      ELSE [o EXCEPT ![ny][nx] =
              << clamp(RatAdd(@[1], RatMul(err[1], n.w)), RInt(0), RInt(255)),
                 clamp(RatAdd(@[2], RatMul(err[2], n.w)), RInt(0), RInt(255)),
                 clamp(RatAdd(@[3], RatMul(err[3], n.w)), RInt(0), RInt(255)) >>]

\* one kernel target: skipped outside the grid or below the alpha threshold,
\* else out[ny][nx] = clamp(p + err * n.w, 0, 255) on each channel
DiffuseTarget(o, al, n, xx, yy, err) ==
  LET nx == xx + n.dx
      ny == yy + n.dy
  IN  IF nx < 0 \/ nx >= Width(o) \/ ny < 0 \/ ny >= Height(o) THEN o
      ELSE IF BelowThreshold(al, ny, nx) THEN o
      ELSE [o EXCEPT ![ny][nx] =
              << clamp(RatAdd(@[1], RatMul(err[1], n.w)), RInt(0), RInt(255)),
                 clamp(RatAdd(@[2], RatMul(err[2], n.w)), RInt(0), RInt(255)),
                 clamp(RatAdd(@[3], RatMul(err[3], n.w)), RInt(0), RInt(255)) >>]

\* for (const n of neigh) { ... }
RECURSIVE DiffuseLoop(_, _, _, _, _, _, _)
DiffuseLoop(o, al, neigh, i, xx, yy, err) ==
  IF i > Len(neigh) THEN o
  ELSE DiffuseLoop(DiffuseTarget(o, al, neigh[i], xx, yy, err), al, neigh, i + 1, xx, yy, err)

\* const neigh = leftToRight ? weightsRight : weightsLeft
errorDiffuseNeigh(ltr) == IF ltr THEN weightsRight(args.method) ELSE weightsLeft(args.method)

\* const neigh = leftToRight ? [ ... ] : [ ... ] of applyFloydSteinbergDithering
floydSteinbergNeigh(ltr) == IF ltr THEN FloydSteinbergRight ELSE FloydSteinbergLeft

\* the body of errorDiffuse's inner loop for an eligible pixel whose nearest
\* colour is newP, with the table neigh of the row and the denominator den
\* it was called with: err = ((oldP - newP) * strength) / denom
errorDiffuseWith(o, al, xx, yy, newP, neigh, den) ==
  LET oldP == o[yy][xx]
      err == [i \in 1..3 |->
                RatDivInt(RatMul(RatSub(oldP[i], newP[i]), args.strength), den)]
  IN  DiffuseLoop([o EXCEPT ![yy][xx] = newP], al, neigh, 1, xx, yy, err)

\* errorDiffuse without the strength in the error: what DiffusionStep rules out
errorDiffusePixelIgnoringStrength(o, al, xx, yy, ltr, newP) ==
  LET oldP == o[yy][xx]
      neigh == errorDiffuseNeigh(ltr)
      err == [i \in 1..3 |-> RatDivInt(RatSub(oldP[i], newP[i]), denom(args.method))]
  IN  DiffuseLoop([o EXCEPT ![yy][xx] = newP], al, neigh, 1, xx, yy, err)

\* errorDiffuse taking a strength of 0 for a missing one (strength || 1.0):
\* what ZeroStrengthIsNoDither rules out
errorDiffusePixelDefaultingStrength(o, al, xx, yy, ltr, newP) ==
  LET oldP == o[yy][xx]
      neigh == errorDiffuseNeigh(ltr)
      strength == IF args.strength = RInt(0) THEN RInt(1) ELSE args.strength
      err == [i \in 1..3 |->
                RatDivInt(RatMul(RatSub(oldP[i], newP[i]), strength), denom(args.method))]
  IN  DiffuseLoop([o EXCEPT ![yy][xx] = newP], al, neigh, 1, xx, yy, err)

\* errorDiffuse, one eligible pixel whose nearest colour is newP:
\* err = ((oldP - newP) * strength) / denom
errorDiffusePixel(o, al, xx, yy, ltr, newP) ==
  errorDiffuseWith(o, al, xx, yy, newP, errorDiffuseNeigh(ltr), denom(args.method))

\* applyFloydSteinbergDithering, one eligible pixel whose nearest colour is
\* newP: err = (oldP - newP) * strength
floydSteinbergPixel(o, al, xx, yy, ltr, newP) ==
  LET oldP == o[yy][xx]
      neigh == floydSteinbergNeigh(ltr)
      err == [i \in 1..3 |-> RatMul(RatSub(oldP[i], newP[i]), args.strength)]
  IN  DiffuseLoop([o EXCEPT ![yy][xx] = newP], al, neigh, 1, xx, yy, err)

\* t = norm[y % N][x % N] * scale * 255 with scale = intensity / 255
OrderedOffset(norm) == RatMul(RatMul(norm, Rat(args.intensity, 255)), RInt(255))

\* adjusted = [p[0] + t, p[1] + t, p[2] + t]
Adjusted(p, t) == << RatAdd(p[1], t), RatAdd(p[2], t), RatAdd(p[3], t) >>

\* bayerPixel storing the adjusted value instead of the palette colour found
\* for it: what PaletteMembership rules out
bayerPixelStoringAdjusted(o, xx, yy) ==
  [o EXCEPT ![yy][xx] = Adjusted(o[yy][xx], OrderedOffset(BayerNorm(yy, xx)))]

\* applyBayerDithering, one eligible pixel
bayerPixel(o, xx, yy) ==
  [o EXCEPT ![yy][xx] = Lookup(Adjusted(o[yy][xx], OrderedOffset(BayerNorm(yy, xx)))).color]

\* halftonePixel handing half of the quantisation error to the pixel on the
\* right: what OrderedStateless rules out
halftonePixelCarryingError(o, xx, yy) ==
  LET found == Lookup(Adjusted(o[yy][xx], OrderedOffset(HalftoneNorm(yy, xx)))).color
      o1 == [o EXCEPT ![yy][xx] = found]
  IN  IF xx + 1 >= Width(o) THEN o1
      ELSE [o1 EXCEPT ![yy][xx + 1] =
              [i \in 1..3 |->
                 clamp(RatAdd(@[i], RatDivInt(RatSub(o[yy][xx][i], found[i]), 2)),
                       RInt(0), RInt(255))]]

\* applyHalftoneDithering, one eligible pixel
halftonePixel(o, xx, yy) ==
  [o EXCEPT ![yy][xx] = Lookup(Adjusted(o[yy][xx], OrderedOffset(HalftoneNorm(yy, xx)))).color]

\* noise() = (Math.random() * 2 - 1) * range for a draw of Math.random()
Noise(draw) == RatMul(RatSub(RatMul(draw, RInt(2)), RInt(1)), RInt(args.intensity))

\* applyRandomDithering, one eligible pixel, for the three draws of Math.random()
randomPixel(o, xx, yy, draws) ==
  [o EXCEPT ![yy][xx] =
     Lookup(<< RatAdd(o[yy][xx][1], Noise(draws[1])),
               RatAdd(o[yy][xx][2], Noise(draws[2])),
               RatAdd(o[yy][xx][3], Noise(draws[3])) >>).color]

\* applyNoDithering, one eligible pixel
noDitherPixel(o, xx, yy) == [o EXCEPT ![yy][xx] = Lookup(o[yy][xx]).color]

\* the body of the inner loop for the deterministic passes, on the working
\* grid o with the alpha grid al, scanning the row in direction ltr
VisitPixel(o, al, xx, yy, ltr) ==
  IF BelowThreshold(al, yy, xx) THEN o
  ELSE CASE args.method = "floyd_steinberg" ->
              floydSteinbergPixel(o, al, xx, yy, ltr, Lookup(o[yy][xx]).color)
         [] args.method \in ErrorDiffuseMethods ->
              errorDiffusePixel(o, al, xx, yy, ltr, Lookup(o[yy][xx]).color)
         [] args.method = "bayer" -> bayerPixel(o, xx, yy)
         [] args.method = "halftone" -> halftonePixel(o, xx, yy)
         [] args.method = "none" -> noDitherPixel(o, xx, yy)

\* the inner loop from column xx on: for (let x = xStart; x !== xEnd; x += xStep)
RECURSIVE ScanRow(_, _, _, _, _)
ScanRow(o, al, xx, yy, ltr) ==
  IF xx = (IF ltr THEN Width(o) ELSE -1) THEN o
  ELSE ScanRow(VisitPixel(o, al, xx, yy, ltr), al, xx + (IF ltr THEN 1 ELSE -1), yy, ltr)

\* the division turned around, Math.floor(50 / h): a report after every row
\* of an image of more than 25 rows, which is what ThrottledProgress rules out
reportEveryInverted == IF 50 \div h > 1 THEN 50 \div h ELSE 1

\* const reportEvery = Math.max(1, Math.floor(h / 50))
reportEvery == IF h \div 50 > 1 THEN h \div 50 ELSE 1

\* the reports counting the rows from 0, y / h: what ProgressShape rules out
RowReportsFromZero(yy) ==
  IF ~args.progressCallback THEN <<>>
  ELSE IF args.method \in DiffusionMethods \cup {"none"}
       THEN (IF yy % reportEvery = 0 THEN << Rat(yy, h) >> ELSE <<>>)
  ELSE IF args.method \in {"bayer", "halftone"}
       THEN (IF yy % 25 = 0 THEN << Rat(yy, h) >> ELSE <<>>)
  ELSE <<>>

\* the row's progress report, if any: the value passed to the callback
RowReports(yy) ==
  IF ~args.progressCallback THEN <<>>
  ELSE IF args.method \in DiffusionMethods \cup {"none"}
       THEN (IF yy % reportEvery = 0 THEN << Rat(yy + 1, h) >> ELSE <<>>)
  ELSE IF args.method \in {"bayer", "halftone"}
       THEN (IF yy % 25 = 0 THEN << Rat(yy + 1, h) >> ELSE <<>>)
  ELSE <<>>

(***************************************************************************)
(* The actions of a pass                                                   *)
(***************************************************************************)
InRow == pc = "scan" /\ y < h /\ x # xEnd(y)

\* a write to the working grid; it reaches rgbChannels only if out is no copy
WriteOut(o) ==
  /\ out' = o
  /\ rgbChannels' = IF OutIsCopy THEN rgbChannels ELSE o

Advance ==
  /\ x' = x + xStep(y)
  /\ UNCHANGED << paletteHeap, pc, args, alphaChannel, y, progress, entry, rowStart,
                  lookup, prev, appVars, zip >>

\* if (alphaChannel[y][x] < alphaThreshold) continue;
SkipPixel ==
  /\ InRow
  /\ BelowThreshold(alphaChannel, y, x)
  /\ WriteOut(out)
  /\ UNCHANGED << paletteLabCache, visits, aliased >>
  /\ Advance

\* the lookup returning the palette's own array: what PaletteNotAliased rules out
ResultIsEntry == FALSE

\* return [...closestColor]: the lookup's result is a new array
ResultIsCopy == TRUE

\* the array stored at the visited pixel is a palette entry's array: the
\* diffusion passes store [...newP], the other passes store the lookup's
\* result itself; on an empty palette the result is the literal [0, 0, 0]
StoredIsEntry ==
  /\ ~ResultIsCopy
  /\ args.method \notin DiffusionMethods
  /\ Len(paletteHeap[args.palette]) > 0

\* an eligible pixel of a pass of one of the methods m is looked up
Visit(m, p) ==
  /\ InRow
  /\ args.method \in m
  /\ ~BelowThreshold(alphaChannel, y, x)
  /\ ~Lookup(p).threw
  /\ paletteLabCache' = CacheAfterLookup(args.palette, "lab")
  /\ visits' = Append(visits, << y, x >>)
  /\ aliased' = IF StoredIsEntry THEN aliased \cup {<< y, x >>} ELSE aliased \ {<< y, x >>}
  /\ Advance

FloydSteinbergPixel ==
  /\ Visit({"floyd_steinberg"}, out[y][x])
  /\ WriteOut(floydSteinbergPixel(out, alphaChannel, x, y, leftToRight(y),
                                  Lookup(out[y][x]).color))

ErrorDiffusePixel ==
  /\ Visit(ErrorDiffuseMethods, out[y][x])
  /\ WriteOut(errorDiffusePixel(out, alphaChannel, x, y, leftToRight(y),
                                Lookup(out[y][x]).color))

BayerPixel ==
  /\ Visit({"bayer"}, Adjusted(out[y][x], OrderedOffset(BayerNorm(y, x))))
  /\ WriteOut(bayerPixel(out, x, y))

HalftonePixel ==
  /\ Visit({"halftone"}, Adjusted(out[y][x], OrderedOffset(HalftoneNorm(y, x))))
  /\ WriteOut(halftonePixel(out, x, y))

\* Math.random() returns a value in [0, 1)
RandomDraws == {RInt(0), Rat(7, 8)}

RandomPixel ==
  /\ \E draws \in RandomDraws \X RandomDraws \X RandomDraws :
       /\ Visit({"random"}, << RatAdd(out[y][x][1], Noise(draws[1])),
                               RatAdd(out[y][x][2], Noise(draws[2])),
                               RatAdd(out[y][x][3], Noise(draws[3])) >>)
       /\ WriteOut(randomPixel(out, x, y, draws))

NoDitherPixel ==
  /\ Visit({"none"}, out[y][x])
  /\ WriteOut(noDitherPixel(out, x, y))

\* the end of the inner loop: the row's progress report, then y++
RowEnd ==
  /\ pc = "scan" /\ y < h /\ x = xEnd(y)
  /\ progress' = progress \o RowReports(y)
  /\ y' = y + 1
  /\ x' = xStart(y + 1)
  /\ rowStart' = out
  /\ UNCHANGED << paletteHeap, paletteLabCache, pc, args, rgbChannels, alphaChannel,
                  out, entry, visits, aliased, lookup, prev, appVars, zip >>

\* if (progressCallback) progressCallback(1); return out;
Return ==
  /\ pc = "scan" /\ y = h
  /\ progress' = IF args.progressCallback THEN Append(progress, RInt(1)) ELSE progress
  /\ pc' = "done"
  /\ UNCHANGED << paletteHeap, paletteLabCache, args, rgbChannels, alphaChannel,
                  out, y, x, entry, rowStart, visits, aliased, lookup, prev, appVars, zip >>

\* the steps of the passes that draw no random numbers
DeterministicPass ==
  \/ SkipPixel
  \/ FloydSteinbergPixel
  \/ ErrorDiffusePixel
  \/ BayerPixel
  \/ HalftonePixel
  \/ NoDitherPixel
  \/ RowEnd
  \/ Return

Pass == DeterministicPass \/ RandomPixel

(***************************************************************************)
(* colors.js: the palettes, as lists of hex strings                        *)
(***************************************************************************)
\* a hex string "#rrggbb" is the sequence of its six digits
\* the first entries of the lists: "#000000", "#3c3c3c" and "#aaaaaa"
FREE_PALETTE_COLORS == << << 0, 0, 0, 0, 0, 0 >>, << 3, 12, 3, 12, 3, 12 >> >>

EXTRA_PALETTE_COLORS == << << 10, 10, 10, 10, 10, 10 >> >>

FULL_PALETTE_COLORS == FREE_PALETTE_COLORS \o EXTRA_PALETTE_COLORS

\* ["#000000", "#ffffff"]
BlackAndWhite == << << 0, 0, 0, 0, 0, 0 >>, << 15, 15, 15, 15, 15, 15 >> >>

\* parseInt(cleanHex.substr(0, 2), 16), ... of the three pairs of digits
hexToRgb(hex) == << 16 * hex[1] + hex[2], 16 * hex[3] + hex[4], 16 * hex[5] + hex[6] >>

\* hexColors.map((hex) => hexToRgb(hex))
getPaletteAsRgb(hexColors) == [i \in 1..Len(hexColors) |-> hexToRgb(hexColors[i])]

\* selectedColors.length > 0 ? selectedColors : ["#000000", "#ffffff"]
createCustomPalette(selectedColors) ==
  IF Len(selectedColors) > 0 THEN selectedColors ELSE BlackAndWhite

(***************************************************************************)
(* app.js: the page's state and its event handlers                         *)
(***************************************************************************)
\* null, where the page holds image data or none
Null == [null |-> TRUE]

\* the files the user picks from
Files == {"a.png", "b.png"}

\* imageToImageData(img) of the image decoded from file f
imageToImageData(f) == [of |-> f]

\* the values of els.paletteType: the three options and a value that is none of them
PaletteTypes == {"free", "full", "custom", "other"}

\* the values of the controls process() reads, as one of two settings
Settings == {"first", "second"}

\* the most loads in flight at a time
MaxInFlight == 2

\* the wheel zooms a view whose zoom has at most this denominator
MaxZoomDenominator == 10

\* the drag pans a view whose offsets are above minus this
MaxOffset == 5

\* const viewState = { zoom: 1, offsetX: 0, offsetY: 0 }
ViewReset == [zoom |-> RInt(1), offsetX |-> RInt(0), offsetY |-> RInt(0)]

\* no file has been selected
NoSelection == [file |-> "none", load |-> "none"]

\* the page after its script has run, with the controls at given values
PageLoaded(type, checked, s, disabled) ==
  /\ srcImageData = Null
  /\ outputImageData = Null
  /\ customPalette = FULL_PALETTE_COLORS
  /\ viewState = ViewReset
  /\ downloadBtnDisabled = disabled
  /\ inFlight = << >>
  /\ lastSelected = NoSelection
  /\ paletteType = type
  /\ paletteDialog = [open |-> FALSE, checked |-> {}]
  /\ live = checked
  /\ settings = s

\* the page is left alone
NoApp == PageLoaded("free", FALSE, "first", TRUE)

\* zipFiles has not been called
NoZip == zip = [called |-> FALSE]

(***************************************************************************)
(* The inputs of the passes                                                *)
(***************************************************************************)
\* the eligible part of the model's images has at most MaxPixels pixels
MaxPixels == 4

\* width x height; a grid of width 0 has one or two (empty) rows
Shapes ==
  { s \in (0..MaxPixels) \X (1..MaxPixels) :
      /\ s[1] * s[2] <= MaxPixels
      /\ (s[1] = 0 => s[2] <= 2) }

\* the shapes of width 2 or more and height 1 or 2: below a first row that is
\* wholly under the alpha threshold their rows meet the other scan direction
ShiftedShapes == { s \in Shapes : s[1] >= 2 /\ s[2] <= 2 }

\* the strips of the ordered passes are longer than the 8 x 8 matrix is wide
StripLength == 9

Rgb(r, g, b) == << RInt(r), RInt(g), RInt(b) >>

White == Rgb(255, 255, 255)

\* the colours of the input images: mid gray, orange, near white, near black
InputColors == << Rgb(128, 128, 128), Rgb(200, 60, 20), Rgb(250, 250, 250), Rgb(10, 10, 10) >>

\* the image of shape s: the input colours in row-major order
Image(s) ==
  [yy \in 0..(s[2] - 1) |->
     [xx \in 0..(s[1] - 1) |-> InputColors[((yy * s[1] + xx) % Len(InputColors)) + 1]]]

\* alpha just below and at the threshold used
AlphaLevels == {127, 128}

AlphaGrids(s) == [0..(s[2] - 1) -> [0..(s[1] - 1) -> AlphaLevels]]

\* the image of shape s under one more row
Shifted(s) == << s[1], s[2] + 1 >>

\* the alpha grids of a shifted image: all of row 0 is below the threshold
ShiftedAlphaGrids(s) == { al \in AlphaGrids(Shifted(s)) : \A xx \in 0..(s[1] - 1) : al[0][xx] = 127 }

\* the alpha grids of a strip: all at the threshold, or every third pixel below
StripAlphaGrids(s) ==
  { [yy \in 0..(s[2] - 1) |-> [xx \in 0..(s[1] - 1) |-> 128]],
    [yy \in 0..(s[2] - 1) |-> [xx \in 0..(s[1] - 1) |->
       IF (xx + yy) % 3 = 1 THEN 127 ELSE 128]] }

\* the palette objects: 1 and 2 hold equal colours in distinct arrays, 3 holds
\* four colours of the application's palette, 4 is empty, 5 holds colours at
\* equal distances from some of the pixels looked up
PalIds == 1..5

Heap0 ==
  [p \in PalIds |->
     CASE p \in {1, 2} -> << Black, White >>
       [] p = 3 -> << Rgb(120, 120, 120), Rgb(237, 28, 36), Rgb(64, 147, 228), Rgb(249, 221, 59) >>
       [] p = 4 -> << >>
       [] p = 5 -> << Black, Rgb(200, 200, 200), Rgb(0, 200, 0) >>]

NoCache == [p \in PalIds |-> [has |-> FALSE, labs |-> << >>]]

Strengths == {RInt(0), RInt(1), RInt(3), RInt(-1)}

Intensities == {32, 90, -64}

Call(method, palette, strength, intensity, alphaThreshold, serpentine, progressCallback) ==
  [method |-> method, palette |-> palette, strength |-> strength, intensity |-> intensity,
   alphaThreshold |-> alphaThreshold, serpentine |-> serpentine,
   progressCallback |-> progressCallback]

DiffusionCalls(pals, strengths) ==
  { Call(m, p, s, 32, 128, serp, TRUE) :
      m \in DiffusionMethods, p \in pals, s \in strengths, serp \in BOOLEAN }

OrderedCalls(pals, intensities) ==
  { Call(m, p, RInt(1), i, 128, FALSE, TRUE) :
      m \in {"bayer", "halftone"}, p \in pals, i \in intensities }

OtherCalls(pals, intensities) ==
  { Call("random", p, RInt(1), i, 128, FALSE, TRUE) : p \in pals, i \in intensities }
  \cup { Call("none", p, RInt(1), 32, 128, FALSE, TRUE) : p \in pals }

\* every strength and intensity with the two non-empty palettes, and the
\* default strength and intensity with the empty one
SpecCalls ==
  DiffusionCalls({1, 3}, Strengths) \cup DiffusionCalls({4}, {RInt(1)})
  \cup OrderedCalls({1, 3}, Intensities) \cup OrderedCalls({4}, {32})
  \cup OtherCalls({1, 3}, Intensities) \cup OtherCalls({4}, {32})

NoLookup ==
  [def |-> 0, pixel |-> Black, palette |-> 0, mode |-> "lab", threw |-> FALSE, color |-> Black]

NoRun == [set |-> FALSE]

\* the state on entry to a pass: out is the copy, the scan is at (0, 0)
Enter(a, rgb, alpha) ==
  /\ args = a
  /\ rgbChannels = rgb
  /\ alphaChannel = alpha
  /\ out = rgb
  /\ y = 0
  /\ x = xStart(0)
  /\ progress = << >>
  /\ entry = [rgb |-> rgb, alpha |-> alpha, cached |-> paletteLabCache[a.palette].has]
  /\ rowStart = rgb
  /\ visits = << >>
  /\ aliased = {}
  /\ pc = "scan"

\* one pass: any image of at most MaxPixels pixels with any alpha grid under
\* any call; the shifted images under the diffusion calls; the strips under
\* the ordered calls
Init ==
  /\ paletteHeap = Heap0
  /\ paletteLabCache = NoCache
  /\ lookup = NoLookup
  /\ prev = NoRun
  /\ NoApp
  /\ NoZip
  /\ \/ \E s \in Shapes : \E alpha \in AlphaGrids(s), a \in SpecCalls :
          Enter(a, Image(s), alpha)
     \/ \E s \in ShiftedShapes :
          \E alpha \in ShiftedAlphaGrids(s), a \in DiffusionCalls({1, 3}, Strengths) :
            Enter(a, Image(Shifted(s)), alpha)
     \/ \E s \in {<< StripLength, 1 >>, << 1, StripLength >>} :
          \E alpha \in StripAlphaGrids(s), a \in OrderedCalls({1, 3}, Intensities) :
            Enter(a, Image(s), alpha)

Next == Pass

Spec == Init /\ [][Next]_vars

(***************************************************************************)
(* Passes over tall images, for the progress reports                       *)
(***************************************************************************)
\* the height of the tallest image: three times the 50 rows of reportEvery
TallRows == 150

\* heights with reportEvery 1, 2 and 3, on both sides of 25 rows
ProgressHeights == {1, 3, 75, 100, TallRows}

\* a pixel is eligible in every 40th row, so that no eligible pixel is a
\* kernel target of another
TallAlpha(s) ==
  [yy \in 0..(s[2] - 1) |-> [xx \in 0..(s[1] - 1) |-> IF yy % 40 = 0 THEN 128 ELSE 127]]

\* every method, with and without a progress callback
ProgressCalls ==
  { Call(m, 1, RInt(1), 32, 128, TRUE, cb) : m \in DiffusionMethods, cb \in BOOLEAN }
  \cup { Call(m, 1, RInt(1), 32, 128, FALSE, cb) :
          m \in {"bayer", "halftone", "random", "none"}, cb \in BOOLEAN }

\* one pass over an image of width 0 or 1 and one of the heights
InitProgress ==
  /\ paletteHeap = Heap0
  /\ paletteLabCache = NoCache
  /\ lookup = NoLookup
  /\ prev = NoRun
  /\ NoApp
  /\ NoZip
  /\ \E width \in {0, 1}, height \in ProgressHeights, a \in ProgressCalls :
       Enter(a, Image(<< width, height >>), TallAlpha(<< width, height >>))

NextProgress == Pass

SpecProgress == InitProgress /\ [][NextProgress]_vars

(***************************************************************************)
(* Direct calls of the two definitions of findClosestColorInPalette        *)
(***************************************************************************)
\* a palette argument that is null or undefined
NullPalette == 0

Modes == {"rgb", "compuphase", "lab"}

\* the pixels looked up: mid gray, two pixels at equal distances from two
\* colours of palette 5, orange, a pixel with a fraction and with channels
\* outside [0, 255], and blue and magenta, farthest from black in the
\* channels the redmean distance weighs most
LookupPixels ==
  { Rgb(128, 128, 128), Rgb(100, 100, 100), Rgb(0, 100, 0), Rgb(200, 60, 20),
    << Rat(255, 2), RInt(-16), RInt(300) >>, Rgb(0, 0, 255), Rgb(255, 0, 255) }

\* findClosestColorInPalette(pixel, palette, mode) of the first definition,
\* for a pixel of pixels and a palette of pals
LookupFirstOn(pixels, pals) ==
  /\ pc = "idle"
  /\ \E pixel \in pixels, pal \in pals, mode \in Modes :
       LET r == IF pal = NullPalette THEN Returned(Black)
                ELSE findClosestColorInPalette(pixel, paletteHeap[pal], mode, LabsUsed(pal))
       IN  /\ lookup' = [def |-> 1, pixel |-> pixel, palette |-> pal, mode |-> mode,
                          threw |-> r.threw, color |-> r.color]
           /\ paletteLabCache' = IF pal = NullPalette THEN paletteLabCache
                                  ELSE CacheAfterLookup(pal, mode)
  /\ UNCHANGED << paletteHeap, pc, passVars, prev, appVars, zip >>

LookupFirst == LookupFirstOn(LookupPixels, PalIds \cup {NullPalette})

\* findClosestColorInPalette(pixel, palette) of the second definition:
\* palette[0] of null or undefined raises a TypeError as well
LookupSecond ==
  /\ pc = "idle"
  /\ \E pixel \in LookupPixels, pal \in PalIds \cup {NullPalette} :
       LET r == IF pal = NullPalette THEN Threw
                ELSE findClosestColorInPalette2(pixel, paletteHeap[pal])
       IN  lookup' = [def |-> 2, pixel |-> pixel, palette |-> pal, mode |-> "rgb",
                      threw |-> r.threw, color |-> r.color]
  /\ UNCHANGED << paletteHeap, paletteLabCache, pc, passVars, prev, appVars, zip >>

\* no pass is running
NoPass ==
  /\ pc = "idle"
  /\ args = Call("none", 1, RInt(1), 32, 128, FALSE, FALSE)
  /\ rgbChannels = Image(<< 1, 1 >>)
  /\ alphaChannel = [yy \in {0} |-> [xx \in {0} |-> 128]]
  /\ out = rgbChannels
  /\ y = 0
  /\ x = 0
  /\ progress = << >>
  /\ entry = [rgb |-> rgbChannels, alpha |-> alphaChannel, cached |-> FALSE]
  /\ rowStart = rgbChannels
  /\ visits = << >>
  /\ aliased = {}

InitLookup ==
  /\ paletteHeap = Heap0
  /\ paletteLabCache = NoCache
  /\ lookup = NoLookup
  /\ prev = NoRun
  /\ NoApp
  /\ NoZip
  /\ NoPass

NextLookup == LookupFirst \/ LookupSecond

SpecLookup == InitLookup /\ [][NextLookup]_vars

(***************************************************************************)
(* Direct calls of findClosestColorInPalette with a palette array that its *)
(* owner changes in place between the calls                                *)
(***************************************************************************)
\* what the array of palette object 1 is made to hold: its colours swapped,
\* one colour fewer, one colour more, none, and the colours it had at first
MutatedContents ==
  { << Black, White >>, << White, Black >>, << Black >>,
    << Black, White, Rgb(120, 120, 120) >>, << >> }

\* the owner of palette object 1 writes to the array, pushes to it or
\* shortens it; the array stays the same object
MutatePalette ==
  /\ pc = "idle"
  /\ \E c \in MutatedContents :
       /\ c # paletteHeap[1]
       /\ paletteHeap' = [paletteHeap EXCEPT ![1] = c]
  /\ UNCHANGED << paletteLabCache, pc, passVars, lookup, prev, appVars, zip >>

\* lookups of two grays with the palette objects 1 and 2, which hold the
\* same colours at first
LookupMutated == LookupFirstOn({Rgb(128, 128, 128), Rgb(100, 100, 100)}, {1, 2})

InitMutation == InitLookup

NextMutation == LookupMutated \/ MutatePalette

SpecMutation == InitMutation /\ [][NextMutation]_vars

(***************************************************************************)
(* A session: passes one after another over the same palette objects, the  *)
(* Lab cache living on between them                                        *)
(***************************************************************************)
\* the deterministic methods under both scan orders with the two palette
\* objects of equal content and a third palette
SessionCalls ==
  { Call(m, p, RInt(1), 32, 128, serp, TRUE) :
      m \in DiffusionMethods, p \in {1, 2, 3}, serp \in BOOLEAN }
  \cup { Call(m, p, RInt(1), 32, 128, FALSE, TRUE) :
          m \in {"bayer", "halftone", "none"}, p \in {1, 2, 3} }

\* the session's image: 2 x 2 with the last pixel below the alpha threshold
SessionAlpha == [yy \in 0..1 |-> [xx \in 0..1 |-> IF yy = 1 /\ xx = 1 THEN 127 ELSE 128]]

\* a caller invokes a pass
CallPass ==
  /\ pc = "idle"
  /\ \E a \in SessionCalls :
       /\ args' = a
       /\ entry' = [rgb |-> Image(<< 2, 2 >>), alpha |-> SessionAlpha,
                    cached |-> paletteLabCache[a.palette].has]
  /\ rgbChannels' = Image(<< 2, 2 >>)
  /\ alphaChannel' = SessionAlpha
  /\ out' = Image(<< 2, 2 >>)
  /\ y' = 0
  /\ x' = 0
  /\ progress' = << >>
  /\ rowStart' = Image(<< 2, 2 >>)
  /\ visits' = << >>
  /\ aliased' = {}
  /\ pc' = "scan"
  /\ UNCHANGED << paletteHeap, paletteLabCache, lookup, prev, appVars, zip >>

\* the pass that returned, by the values of its inputs and its result
ThisRun ==
  [set |-> TRUE, method |-> args.method, palette |-> args.palette,
   colors |-> paletteHeap[args.palette], strength |-> args.strength,
   intensity |-> args.intensity, alphaThreshold |-> args.alphaThreshold,
   serpentine |-> args.serpentine, rgb |-> entry.rgb, alpha |-> entry.alpha,
   cached |-> entry.cached, out |-> out]

\* the caller keeps the first result it means to compare later runs with
Remember ==
  /\ pc = "done"
  /\ ~prev.set
  /\ prev' = ThisRun
  /\ pc' = "idle"
  /\ UNCHANGED << paletteHeap, paletteLabCache, passVars, lookup, appVars, zip >>

\* the caller drops the result
Forget ==
  /\ pc = "done"
  /\ pc' = "idle"
  /\ UNCHANGED << paletteHeap, paletteLabCache, passVars, lookup, prev, appVars, zip >>

InitSession ==
  /\ paletteHeap = Heap0
  /\ paletteLabCache = NoCache
  /\ lookup = NoLookup
  /\ prev = NoRun
  /\ NoApp
  /\ NoZip
  /\ NoPass

NextSession == CallPass \/ DeterministicPass \/ Remember \/ Forget

SpecSession == InitSession /\ [][NextSession]_vars

(***************************************************************************)
(* app.js: the event handlers                                              *)
(***************************************************************************)
\* getActivePaletteHex() when els.paletteType.value is type
ActivePaletteHex(type) ==
  IF type = "free" THEN FREE_PALETTE_COLORS
  ELSE IF type = "full" THEN FULL_PALETTE_COLORS
  ELSE IF type = "custom"
    THEN IF Len(customPalette) # 0 THEN customPalette ELSE BlackAndWhite
  ELSE FREE_PALETTE_COLORS

getActivePaletteHex == ActivePaletteHex(paletteType)

\* what a process() run stores: the output of the pass over the source under
\* the settings, with the palette the pass was handed
ProcessOutput(type, s) ==
  [src |-> srcImageData, settings |-> s,
   palette |-> getPaletteAsRgb(ActivePaletteHex(type))]

\* process() when the controls hold type and s
process(type, s) ==
  IF srcImageData = Null
    THEN UNCHANGED << outputImageData, downloadBtnDisabled >>
    ELSE /\ outputImageData' = ProcessOutput(type, s)
         /\ downloadBtnDisabled' = FALSE

\* fileInput "change" up to the await: the load of the file starts
SelectFile ==
  /\ ~paletteDialog.open
  /\ Len(inFlight) < MaxInFlight
  /\ \E f \in Files :
       /\ inFlight' = Append(inFlight, f)
       /\ lastSelected' = [file |-> f, load |-> "pending"]
  /\ UNCHANGED << coreVars, zip, srcImageData, outputImageData, customPalette,
                  viewState,
                  downloadBtnDisabled, paletteType, paletteDialog, live, settings >>

\* the load in flight at position i completes
Completed(i, outcome) ==
  /\ inFlight' = SubSeq(inFlight, 1, i - 1) \o SubSeq(inFlight, i + 1, Len(inFlight))
  /\ lastSelected' = IF i = Len(inFlight) /\ lastSelected.load = "pending"
                       THEN [lastSelected EXCEPT !.load = outcome]
                       ELSE lastSelected

\* the continuation of the load without outputImageData = null
LoadSucceedsKeepingOutput(i) ==
  /\ srcImageData' = imageToImageData(inFlight[i])
  /\ downloadBtnDisabled' = TRUE
  /\ viewState' = ViewReset
  /\ Completed(i, "loaded")
  /\ UNCHANGED << coreVars, zip, outputImageData, customPalette, paletteType,
                  paletteDialog, live, settings >>

\* fileInput "change" after the await, the image having loaded
LoadSucceeds(i) ==
  /\ srcImageData' = imageToImageData(inFlight[i])
  /\ outputImageData' = Null
  /\ downloadBtnDisabled' = TRUE
  /\ viewState' = ViewReset
  /\ Completed(i, "loaded")
  /\ UNCHANGED << coreVars, zip, customPalette, paletteType, paletteDialog, live,
                  settings >>

\* fileInput "change" after the await, the load having been rejected
LoadFails(i) ==
  /\ Completed(i, "failed")
  /\ UNCHANGED << coreVars, zip, srcImageData, outputImageData, customPalette,
                  viewState,
                  downloadBtnDisabled, paletteType, paletteDialog, live, settings >>

LoadCompletes ==
  \E i \in 1..Len(inFlight) : LoadSucceeds(i) \/ LoadFails(i)

\* processBtn "click"
ProcessClick ==
  /\ ~paletteDialog.open
  /\ process(paletteType, settings)
  /\ UNCHANGED << coreVars, zip, srcImageData, customPalette, viewState, inFlight,
                  lastSelected,
                  paletteType, paletteDialog, live, settings >>

\* live "change"
LiveChange ==
  /\ ~paletteDialog.open
  /\ live' = ~live
  /\ IF live' THEN process(paletteType, settings)
              ELSE UNCHANGED << outputImageData, downloadBtnDisabled >>
  /\ UNCHANGED << coreVars, zip, srcImageData, customPalette, viewState, inFlight,
                  lastSelected,
                  paletteType, paletteDialog, settings >>

\* "input" of one of the controls process() reads
SettingsInput ==
  /\ ~paletteDialog.open
  /\ \E s \in Settings \ {settings} :
       /\ settings' = s
       /\ IF live THEN process(paletteType, s)
                  ELSE UNCHANGED << outputImageData, downloadBtnDisabled >>
  /\ UNCHANGED << coreVars, zip, srcImageData, customPalette, viewState, inFlight,
                  lastSelected,
                  paletteType, paletteDialog, live >>

\* paletteType "change" and "input"
PaletteTypeChange ==
  /\ ~paletteDialog.open
  /\ \E type \in PaletteTypes \ {paletteType} :
       /\ paletteType' = type
       /\ IF live THEN process(type, settings)
                  ELSE UNCHANGED << outputImageData, downloadBtnDisabled >>
  /\ UNCHANGED << coreVars, zip, srcImageData, customPalette, viewState, inFlight,
                  lastSelected,
                  paletteDialog, live, settings >>

\* canvas "wheel" with the mouse at (mouseX, mouseY)
Wheel ==
  /\ ~paletteDialog.open
  /\ viewState.zoom[2] <= MaxZoomDenominator
  /\ \E zoomFactor \in {Rat(9, 10), Rat(11, 10)}, mouseX \in {0, 10}, mouseY \in {0} :
       LET newZoom == RatMax(Rat(1, 10), RatMin(RatMul(viewState.zoom, zoomFactor), RInt(20)))
           ratio   == RatMul(newZoom, << viewState.zoom[2], viewState.zoom[1] >>)
           moved(mouse, offset) ==
             RatSub(RInt(mouse), RatMul(RatSub(RInt(mouse), offset), ratio))
       IN  viewState' = [zoom    |-> newZoom,
                         offsetX |-> moved(mouseX, viewState.offsetX),
                         offsetY |-> moved(mouseY, viewState.offsetY)]
  /\ UNCHANGED << coreVars, zip, srcImageData, outputImageData, customPalette,
                  downloadBtnDisabled,
                  inFlight, lastSelected, paletteType, paletteDialog, live, settings >>

\* canvas "mousedown" and a "mousemove" by (dx, dy)
Pan ==
  /\ ~paletteDialog.open
  /\ RatLess(RInt(-MaxOffset), viewState.offsetX)
  /\ RatLess(RInt(-MaxOffset), viewState.offsetY)
  /\ \E d \in {<< 5, 0 >>, << 0, 5 >>} :
       viewState' = [viewState EXCEPT !.offsetX = RatSub(@, RInt(d[1])),
                                      !.offsetY = RatSub(@, RInt(d[2]))]
  /\ UNCHANGED << coreVars, zip, srcImageData, outputImageData, customPalette,
                  downloadBtnDisabled,
                  inFlight, lastSelected, paletteType, paletteDialog, live, settings >>

\* customizePaletteBtn "click": buildPaletteDialog(new Set(customPalette)), showModal()
CustomizePalette ==
  /\ ~paletteDialog.open
  /\ paletteDialog' =
       [open |-> TRUE,
        checked |-> { i \in 1..Len(FULL_PALETTE_COLORS) :
                        \E j \in 1..Len(customPalette) :
                          customPalette[j] = FULL_PALETTE_COLORS[i] }]
  /\ UNCHANGED << coreVars, zip, srcImageData, outputImageData, customPalette,
                  viewState,
                  downloadBtnDisabled, inFlight, lastSelected, paletteType, live, settings >>

\* the dialog's checkboxes become the set checked
SetCheckboxes(checked) ==
  /\ paletteDialog.open
  /\ paletteDialog' = [paletteDialog EXCEPT !.checked = checked]
  /\ UNCHANGED << coreVars, zip, srcImageData, outputImageData, customPalette,
                  viewState,
                  downloadBtnDisabled, inFlight, lastSelected, paletteType, live, settings >>

\* paletteSelectAll "click"
PaletteSelectAll == SetCheckboxes(1..Len(FULL_PALETTE_COLORS))

\* paletteClear "click"
PaletteClear == SetCheckboxes({})

\* the user checks or unchecks one box
ToggleCheckbox ==
  \E i \in 1..Len(FULL_PALETTE_COLORS) :
    SetCheckboxes(IF i \in paletteDialog.checked THEN paletteDialog.checked \ {i}
                                                 ELSE paletteDialog.checked \cup {i})

\* the hex strings of the checked boxes, in the order of the grid
chosen == SelectSeq([i \in 1..Len(FULL_PALETTE_COLORS) |-> i],
                    LAMBDA i : i \in paletteDialog.checked)

\* paletteApply "click" that stores the chosen colours whatever their number
PaletteApplyStoringChosen ==
  /\ paletteDialog.open
  /\ customPalette' = [k \in 1..Len(chosen) |-> FULL_PALETTE_COLORS[chosen[k]]]
  /\ paletteDialog' = [paletteDialog EXCEPT !.open = FALSE]
  /\ UNCHANGED << coreVars, zip, srcImageData, outputImageData, viewState,
                  downloadBtnDisabled, inFlight, lastSelected, paletteType, live, settings >>

\* paletteApply "click"
PaletteApply ==
  /\ paletteDialog.open
  /\ customPalette' = IF Len(chosen) # 0
                        THEN [k \in 1..Len(chosen) |-> FULL_PALETTE_COLORS[chosen[k]]]
                        ELSE BlackAndWhite
  /\ paletteDialog' = [paletteDialog EXCEPT !.open = FALSE]
  /\ UNCHANGED << coreVars, zip, srcImageData, outputImageData, viewState,
                  downloadBtnDisabled,
                  inFlight, lastSelected, paletteType, live, settings >>

\* paletteCancel "click"
PaletteCancel ==
  /\ paletteDialog.open
  /\ paletteDialog' = [paletteDialog EXCEPT !.open = FALSE]
  /\ UNCHANGED << coreVars, zip, srcImageData, outputImageData, customPalette,
                  viewState,
                  downloadBtnDisabled, inFlight, lastSelected, paletteType, live, settings >>

\* a page with a file input, the view and the controls
InitApp ==
  /\ paletteHeap = Heap0
  /\ paletteLabCache = NoCache
  /\ lookup = NoLookup
  /\ prev = NoRun
  /\ NoPass
  /\ NoZip
  /\ \E checked \in BOOLEAN, s \in Settings, disabled \in BOOLEAN :
       PageLoaded("free", checked, s, disabled)

NextApp ==
  SelectFile \/ LoadCompletes \/ ProcessClick \/ LiveChange \/ SettingsInput \/ Wheel \/ Pan

SpecApp == InitApp /\ [][NextApp]_vars

\* a page with a file input, the palette type and the palette dialog
InitPalette ==
  /\ paletteHeap = Heap0
  /\ paletteLabCache = NoCache
  /\ lookup = NoLookup
  /\ prev = NoRun
  /\ NoPass
  /\ NoZip
  /\ \E type \in PaletteTypes : PageLoaded(type, FALSE, "first", TRUE)

NextPalette ==
  \/ SelectFile \/ LoadCompletes \/ ProcessClick \/ PaletteTypeChange
  \/ CustomizePalette \/ PaletteSelectAll \/ PaletteClear \/ ToggleCheckbox
  \/ PaletteApply \/ PaletteCancel

SpecPalette == InitPalette /\ [][NextPalette]_vars

(***************************************************************************)
(* zip.js: zipFiles                                                        *)
(***************************************************************************)
\* the number of values of a 16-bit field
Uint16Range == 65536

\* dv.setUint16(at, v, true): the field holds v modulo 2^16
Uint16(v) == v % Uint16Range

\* dv.setUint32(at, v, true): the field holds v modulo 2^32, as its low and
\* its high 16-bit word
Uint32(v) == << v % Uint16Range, (v \div Uint16Range) % Uint16Range >>

\* the number a 32-bit field holds
Value32(field) == field[1] + Uint16Range * field[2]

\* a 32-bit value of crc32 is the sequence of its bits, lowest first: the
\* bits of a number below 2^16
Bits32(n) == [i \in 1..32 |-> IF i <= 16 THEN (n \div (2 ^ (i - 1))) % 2 ELSE 0]

Xor32(a, b) == [i \in 1..32 |-> (a[i] + b[i]) % 2]

\* c >>> k
Shr32(c, k) == [i \in 1..32 |-> IF i + k <= 32 THEN c[i + k] ELSE 0]

\* the bits from to from + 15 of c, as a number
Word(c, from) ==
  LET RECURSIVE value(_)
      value(i) == IF i = 16 THEN 0 ELSE c[from + i] + 2 * value(i + 1)
  IN  value(0)

\* 0xedb88320
CrcPolynomial == [i \in 1..32 |-> IF i <= 16 THEN Bits32(33568)[i] ELSE Bits32(60856)[i - 16]]

\* makeCRC32Table: table[n]
RECURSIVE CrcRounds(_, _)
CrcRounds(c, k) ==
  IF k = 8 THEN c
  ELSE CrcRounds(IF c[1] = 1 THEN Xor32(CrcPolynomial, Shr32(c, 1)) ELSE Shr32(c, 1), k + 1)

CRC_TABLE(n) == CrcRounds(Bits32(n), 0)

\* c = CRC_TABLE[(c ^ u8[i]) & 0xff] ^ (c >>> 8) for i = from, ..., u8.length
RECURSIVE CrcLoop(_, _, _)
CrcLoop(u8, i, c) ==
  IF i > Len(u8) THEN c
  ELSE LET index == Word(Xor32(c, Bits32(u8[i])), 1) % 256
       IN  CrcLoop(u8, i + 1, Xor32(CRC_TABLE(index), Shr32(c, 8)))

\* crc32(u8), as the 32-bit field setUint32 writes
crc32(u8) ==
  LET c == Xor32(CrcLoop(u8, 1, [i \in 1..32 |-> 1]), [i \in 1..32 |-> 1])
  IN  << Word(c, 1), Word(c, 17) >>

\* a | b for numbers that are not negative
RECURSIVE BitOr(_, _)
BitOr(a, b) ==
  IF a = 0 THEN b
  ELSE IF b = 0 THEN a
  ELSE (IF a % 2 = 1 \/ b % 2 = 1 THEN 1 ELSE 0) + 2 * BitOr(a \div 2, b \div 2)

\* dateToDos(dt), dt.getMonth() + 1 being dt.mon
dateToDos(dt) ==
  LET sec == dt.sec \div 2
  IN  [dosTime |-> BitOr(BitOr(dt.hrs * 2048, dt.min * 32), sec),
       dosDate |-> BitOr(BitOr((dt.year - 1980) * 512, dt.mon * 32), dt.day)]

\* f.name.replace(/\\\\/g, "/"), a name being the sequence of its character
\* codes: two backslashes in a row become one slash
RECURSIVE ReplaceBackslashes(_)
ReplaceBackslashes(name) ==
  IF Len(name) = 0 THEN << >>
  ELSE IF Len(name) >= 2 /\ name[1] = 92 /\ name[2] = 92
    THEN << 47 >> \o ReplaceBackslashes(SubSeq(name, 3, Len(name)))
  ELSE << name[1] >> \o ReplaceBackslashes(Tail(name))

\* encoder.encode(name) of a name of ASCII characters
Encode(name) == name

\* The model's list of files is a sequence of runs: a run stands for
\* count entries of files in a row that have the same name, data and date.
\* The first loop over the entries of a run pushes count records that
\* differ in their offset only, the offset of one being localSize more than
\* that of the one before: the run's record holds the offset of the first.
RECURSIVE LocalLoop(_, _, _, _)
LocalLoop(files, k, offset, records) ==
  IF k > Len(files) THEN [offset |-> offset, records |-> records]
  ELSE LET f         == files[k]
           nameBytes == Encode(ReplaceBackslashes(f.name))
           dataU8    == f.data
           size      == Len(dataU8)
           dos       == dateToDos(f.date)
           localSize == 30 + Len(nameBytes) + size
           r == [count |-> f.count, nameBytes |-> nameBytes, crc |-> crc32(dataU8),
                 size |-> size, dosTime |-> dos.dosTime, dosDate |-> dos.dosDate,
                 offset |-> offset, localSize |-> localSize]
       IN  LocalLoop(files, k + 1, offset + f.count * localSize, Append(records, r))

\* the local file header the first loop writes for the entries of record r
LocalHeader(r) ==
  [signature |-> "PK0304", version |-> Uint16(20), flags |-> Uint16(0),
   method |-> Uint16(0), dosTime |-> Uint16(r.dosTime), dosDate |-> Uint16(r.dosDate),
   crc |-> r.crc, compressed |-> Uint32(r.size), uncompressed |-> Uint32(r.size),
   nameLength |-> Uint16(Len(r.nameBytes)), extraLength |-> Uint16(0)]

\* records[...].offset of the entry at position j (from 0) of the run of r
RecordOffset(r, j) == r.offset + j * r.localSize

\* the central directory header with the offset taken after the entry
CentralHeaderOffsetAfterEntry(r, j) ==
  [signature |-> "PK0102", versionMadeBy |-> Uint16(20), version |-> Uint16(20),
   flags |-> Uint16(0), method |-> Uint16(0), dosTime |-> Uint16(r.dosTime),
   dosDate |-> Uint16(r.dosDate), crc |-> r.crc, compressed |-> Uint32(r.size),
   uncompressed |-> Uint32(r.size), nameLength |-> Uint16(Len(r.nameBytes)),
   extraLength |-> Uint16(0), commentLength |-> Uint16(0), diskStart |-> Uint16(0),
   internalAttrs |-> Uint16(0), externalAttrs |-> Uint32(0),
   offset |-> Uint32(RecordOffset(r, j) + r.localSize)]

\* the central directory header the second loop writes for that entry
CentralHeader(r, j) ==
  [signature |-> "PK0102", versionMadeBy |-> Uint16(20), version |-> Uint16(20),
   flags |-> Uint16(0), method |-> Uint16(0), dosTime |-> Uint16(r.dosTime),
   dosDate |-> Uint16(r.dosDate), crc |-> r.crc, compressed |-> Uint32(r.size),
   uncompressed |-> Uint32(r.size), nameLength |-> Uint16(Len(r.nameBytes)),
   extraLength |-> Uint16(0), commentLength |-> Uint16(0), diskStart |-> Uint16(0),
   internalAttrs |-> Uint16(0), externalAttrs |-> Uint32(0),
   offset |-> Uint32(RecordOffset(r, j))]

\* offset += 46 + r.nameBytes.length, for the records from k on
RECURSIVE CentralLoop(_, _, _)
CentralLoop(records, k, offset) ==
  IF k > Len(records) THEN offset
  ELSE CentralLoop(records, k + 1,
                   offset + records[k].count * (46 + Len(records[k].nameBytes)))

\* records.length
RECURSIVE RecordsLength(_, _)
RecordsLength(records, k) ==
  IF k > Len(records) THEN 0 ELSE records[k].count + RecordsLength(records, k + 1)

\* zipFiles(files): the records, and the end of central directory record
zipFiles(files) ==
  LET local        == LocalLoop(files, 1, 0, << >>)
      centralStart == local.offset
      centralSize  == CentralLoop(local.records, 1, centralStart) - centralStart
      length       == RecordsLength(local.records, 1)
  IN  [records |-> local.records,
       eocd |-> [signature |-> "PK0506", disk |-> Uint16(0), diskStart |-> Uint16(0),
                 entriesOnDisk |-> Uint16(length), entries |-> Uint16(length),
                 centralSize |-> Uint32(centralSize),
                 centralStart |-> Uint32(centralStart), commentLength |-> Uint16(0)]]

\* the most runs in a list of files
MaxRuns == 2

\* the numbers of entries of a run: one, and as many as a 16-bit field counts
RunCounts == {1, Uint16Range - 1}

\* "a" and "d\\a"
ZipNames == { << 97 >>, << 100, 92, 92, 97 >> }

\* no bytes, and the bytes of "ab"
ZipData == { << >>, << 97, 98 >> }

\* 29 February 2024 13:37:59, and 1 January 2110 00:00:00
ZipDates == { [year |-> 2024, mon |-> 2, day |-> 29, hrs |-> 13, min |-> 37, sec |-> 59],
              [year |-> 2110, mon |-> 1, day |-> 1, hrs |-> 0, min |-> 0, sec |-> 0] }

ZipRuns == [count : RunCounts, name : ZipNames, data : ZipData, date : ZipDates]

ZipInputs == UNION { [1..n -> ZipRuns] : n \in 0..MaxRuns }

\* a caller calls zipFiles
ZipFiles ==
  /\ ~zip.called
  /\ zip' = [called |-> TRUE, files |-> zip.files, archive |-> zipFiles(zip.files)]
  /\ UNCHANGED << coreVars, appVars >>

\* a list of files about to be zipped
InitZip ==
  /\ paletteHeap = Heap0
  /\ paletteLabCache = NoCache
  /\ lookup = NoLookup
  /\ prev = NoRun
  /\ NoPass
  /\ NoApp
  /\ \E files \in ZipInputs : zip = [called |-> FALSE, files |-> files]

NextZip == ZipFiles

SpecZip == InitZip /\ [][NextZip]_vars

(***************************************************************************)
(* Properties of the passes                                                *)
(***************************************************************************)
Rows == 0..(h - 1)

Cols == 0..(w - 1)

Eligible(yy, xx) == ~BelowThreshold(entry.alpha, yy, xx)

Colors(pal) == { paletteHeap[pal][i] : i \in 1..Len(paletteHeap[pal]) }

\* the Lab distance of the lookups, computed afresh
LabDistance(p, c) == deltaE76(rgbToLab(p), rgbToLab(c))

\* the colours of palette pal at the least Lab distance from p
NearestEntries(p, pal) ==
  { c \in Colors(pal) : \A c2 \in Colors(pal) : LabDistance(p, c) <= LabDistance(p, c2) }

\* the pixels the scan has visited so far
Visited(yy, xx) ==
  \/ pc = "done"
  \/ yy < y
  \/ yy = y /\ (IF leftToRight(y) THEN xx < x ELSE xx > x)

\* C1: at every point of the scan of every pass, a pixel whose alpha is below
\* the threshold holds its input RGB value in the working grid: it is not
\* quantised and receives no diffused error.
AlphaPassThrough ==
  \A yy \in Rows : \A xx \in Cols :
    BelowThreshold(entry.alpha, yy, xx) => out[yy][xx] = entry.rgb[yy][xx]

\* a finished diffusion pass in which the eligible pixel (0, 0) changed with a
\* non-zero strength and its right neighbour, a kernel target, is below the
\* threshold
AlphaPassThroughWitness ==
  /\ pc = "done"
  /\ args.method \in DiffusionMethods
  /\ args.strength # RInt(0)
  /\ w >= 2
  /\ Eligible(0, 0)
  /\ out[0][0] # entry.rgb[0][0]
  /\ BelowThreshold(entry.alpha, 0, 1)
  /\ out[0][1] = entry.rgb[0][1]

\* C2: with a non-empty palette, every eligible pixel of the result of the
\* no-dither, Bayer, halftone and random passes is a colour of the palette.
PaletteMembership ==
  (/\ pc = "done"
   /\ args.method \in {"none", "bayer", "halftone", "random"}
   /\ Len(paletteHeap[args.palette]) > 0)
  => \A yy \in Rows : \A xx \in Cols :
       Eligible(yy, xx) => out[yy][xx] \in Colors(args.palette)

\* a finished Bayer pass over a non-empty palette whose eligible pixel (0, 0)
\* was changed to a palette colour
PaletteMembershipWitness ==
  /\ pc = "done"
  /\ args.method = "bayer"
  /\ Len(paletteHeap[args.palette]) > 0
  /\ w >= 1
  /\ Eligible(0, 0)
  /\ out[0][0] # entry.rgb[0][0]
  /\ out[0][0] \in Colors(args.palette)

InRange(p) ==
  \A i \in 1..3 : ~RatLess(p[i], RInt(0)) /\ ~RatLess(RInt(255), p[i])

\* C3: every channel of the working grid, at every point of the scan and in
\* the result, lies in [0, 255], for every strength and intensity of the
\* model, the negative ones and those above the nominal range included.
ChannelsClamped ==
  \A yy \in Rows : \A xx \in Cols : InRange(out[yy][xx])

\* in a diffusion pass a pixel not yet visited was driven from inside the
\* range onto the limit 0, and another state does so for the limit 255
ClampedAt(limit) ==
  /\ pc = "scan"
  /\ args.method \in DiffusionMethods
  /\ \E yy \in Rows : \E xx \in Cols :
       /\ ~Visited(yy, xx)
       /\ Eligible(yy, xx)
       /\ out[yy][xx][1] = RInt(limit)
       /\ entry.rgb[yy][xx][1] # RInt(limit)

ChannelsClampedWitness == ClampedAt(0) /\ args.strength = RInt(3)

ChannelsClampedHighWitness == ClampedAt(255) /\ args.strength = RInt(-1)

RowsReported(n, every) ==
  [i \in 1..((n + every - 1) \div every) |-> Rat((i - 1) * every + 1, h)]

\* what the callback has received in the current state under that schedule
ReportsEvery(every) ==
  IF ~args.progressCallback THEN << >>
  ELSE IF pc = "done" THEN Append(RowsReported(h, every), RInt(1))
  ELSE RowsReported(y, every)

\* max(1, h / 50) in whole rows
ThrottleRows == IF h >= 100 THEN h \div 50 ELSE 1

\* C12: in a diffusion or no-dither pass with a callback, the callback has
\* received, at every point of the scan, exactly one report (y + 1) / h for
\* each completed row y that is a multiple of max(1, h / 50), in row order,
\* and the final 1 once the pass has returned.
ThrottledProgress ==
  (pc \in {"scan", "done"} /\ args.method \in DiffusionMethods \cup {"none"})
    => progress = ReportsEvery(ThrottleRows)

\* a finished Jarvis pass over 100 rows: a report after every second row, 50
\* in all, and the final one
ThrottledProgressWitness ==
  /\ pc = "done"
  /\ args.method = "jarvis"
  /\ args.progressCallback
  /\ h = 100
  /\ w = 1
  /\ Len(progress) = 51
  /\ progress[2] = Rat(3, 100)

\* C13: in a Bayer, halftone or random pass with a callback, the callback has
\* received one report for each completed row that is a multiple of 25.  The
\* random pass violates it: it reports nothing during the scan.
ReportsEvery25Rows ==
  (pc \in {"scan", "done"} /\ args.method \in {"bayer", "halftone", "random"})
    => progress = ReportsEvery(25)

\* row yy runs left to right when serpentine is off or yy is even
RunsLeftToRight(yy) == ~args.serpentine \/ yy % 2 = 0

\* the pixels of row yy in the order of its scan
RowCells(yy) ==
  [i \in 1..w |-> << yy, IF RunsLeftToRight(yy) THEN i - 1 ELSE w - i >>]

EligibleCell(c) == Eligible(c[1], c[2])

\* the eligible pixels of the rows yy .. h - 1 in scan order
RECURSIVE ScanCells(_)
ScanCells(yy) ==
  IF yy >= h THEN << >> ELSE SelectSeq(RowCells(yy), EligibleCell) \o ScanCells(yy + 1)

\* the lookups made so far are the first ones of the scan order, and all of
\* them once the pass has returned
VisitsInScanOrder ==
  /\ Len(visits) <= Len(ScanCells(0))
  /\ visits = SubSeq(ScanCells(0), 1, Len(visits))
  /\ pc = "done" => visits = ScanCells(0)

\* the loop iterations and the return a pass still has before it: the rest of
\* the current row, the later rows, one row end for each row, the return
ScanRemaining ==
  IF pc = "done" THEN 0
  ELSE IF y >= h THEN 1
  ELSE 1 + (h - y) + (h - y - 1) * w + Abs(xEnd(y) - x)

\* a pass that has not returned has a next step: the return after the last
\* row, the end of a row, or a pixel of the row whose lookup returns
ScanCanStep ==
  pc = "scan" =>
    \/ y = h
    \/ y < h /\ x = xEnd(y)
    \/ /\ y < h
       /\ x \in Cols
       /\ (BelowThreshold(alphaChannel, y, x) \/ ~Lookup(out[y][x]).threw)

\* C14: a diffusion pass quantises the eligible pixels once each, row after
\* row from 0 to h - 1, left to right in the rows where serpentine is off or
\* the row is even and right to left in the others; it returns, also on
\* grids of width 0: in no state is it stuck, and every step takes one from
\* the finite number of iterations it has left.
ScanOrder ==
  /\ [](args.method \in DiffusionMethods => (VisitsInScanOrder /\ ScanCanStep))
  /\ [][args.method \in DiffusionMethods =>
          (ScanRemaining' < ScanRemaining /\ ScanRemaining' >= 0)]_vars

\* a finished serpentine pass over a grid with two columns or more: row 1 was
\* visited from right to left after row 0 from left to right
ScanOrderWitness ==
  /\ pc = "done"
  /\ args.method \in DiffusionMethods
  /\ args.serpentine
  /\ w >= 2 /\ h >= 2
  /\ \E i \in 1..(Len(visits) - 3) :
       /\ visits[i] = << 0, 0 >>
       /\ visits[i + 1] = << 0, 1 >>
       /\ visits[i + 2] = << 1, 1 >>
       /\ visits[i + 3] = << 1, 0 >>

\* a diffusion pass over a grid of width 0 has returned
ScanOrderEmptyRowsWitness ==
  /\ pc = "done"
  /\ args.method \in DiffusionMethods
  /\ w = 0 /\ h = 2
  /\ visits = << >>

\* the scan of a diffusion pass stands on an eligible pixel
DiffusionVisit ==
  /\ InRow
  /\ args.method \in DiffusionMethods
  /\ Eligible(y, x)

\* weight / D for every entry of the running method's left-to-right table
StepTable ==
  IF args.method = "floyd_steinberg" THEN FloydSteinbergRight
  ELSE [i \in 1..Len(weightsRight(args.method)) |->
          NW(weightsRight(args.method)[i].dx, weightsRight(args.method)[i].dy,
             RatDivInt(weightsRight(args.method)[i].w, denom(args.method)))]

\* the shares weight / D the pixel (yy, xx) takes of the error of the pixel
\* (y, x): the table's entry at the offset between the two, the offset being
\* read in the mirrored table on a right-to-left row; none if (yy, xx) is no
\* kernel target
KernelShares(yy, xx) ==
  LET dx == IF RunsLeftToRight(y) THEN xx - x ELSE x - xx
  IN  { StepTable[i].w : i \in { j \in 1..Len(StepTable) :
                                   StepTable[j].dx = dx /\ StepTable[j].dy = yy - y } }

\* old + (c - q) * strength * share, clamped to 0 .. 255, on each channel
Diffused(old, c, q, share) ==
  [i \in 1..3 |->
     clamp(RatAdd(old[i], RatMul(RatMul(RatSub(c[i], q[i]), args.strength), share)),
           RInt(0), RInt(255))]

\* C15: a diffusion pass visiting an eligible pixel reads c, the pixel's
\* current value in the working grid, overwrites the pixel with q, the
\* palette colour nearest to c, and replaces every kernel target inside the
\* grid with alpha at or above the threshold by
\* clamp(old + (c - q) * strength * weight / D, 0, 255) on each channel, the
\* offsets being those of the left-to-right table on a left-to-right row and
\* the mirrored ones on a right-to-left row.
DiffusionStep ==
  [][DiffusionVisit =>
       /\ Len(paletteHeap[args.palette]) > 0
            => out'[y][x] \in NearestEntries(out[y][x], args.palette)
       /\ \A yy \in Rows, xx \in Cols :
            Eligible(yy, xx) =>
              \A share \in KernelShares(yy, xx) :
                out'[yy][xx] = Diffused(out[yy][xx], out[y][x], out'[y][x], share)]_vars

\* on the right-to-left row 1 of a 2 x 2 image the pixel (1, 1), whose value
\* had been changed by the visits of row 0, has just been visited at a
\* strength other than 0 and 1, and its target (1, 0) has changed
DiffusionStepWitness ==
  /\ pc = "scan"
  /\ args.method \in DiffusionMethods
  /\ args.strength = RInt(3)
  /\ h = 2 /\ w = 2
  /\ y = 1 /\ x = 0
  /\ ~RunsLeftToRight(1)
  /\ visits # << >> /\ visits[Len(visits)] = << 1, 1 >>
  /\ rowStart[1][1] # rgbChannels[1][1]
  /\ out[1][0] # rowStart[1][0]

\* the kernels reach two columns to either side and two rows down
Reach == 2

\* the working grid with Reach more columns on either side and Reach more
\* rows below, and the alpha grid over it with every pixel at the threshold:
\* there no target of the pixel (y, x) is skipped
PaddedOut ==
  [yy \in 0..(h + Reach - 1) |->
     [xx \in 0..(w + 2 * Reach - 1) |->
        IF yy < h /\ xx >= Reach /\ xx < w + Reach THEN out[yy][xx - Reach]
        ELSE Rgb(128, 128, 128)]]

PaddedAlpha ==
  [yy \in 0..(h + Reach - 1) |-> [xx \in 0..(w + 2 * Reach - 1) |-> args.alphaThreshold]]

\* the visit of the pixel (y, x) with none of its targets skipped
UnskippedVisit == VisitPixel(PaddedOut, PaddedAlpha, x + Reach, y, leftToRight(y))

\* C16: a visit of a diffusion pass leaves every pixel unchanged that is
\* below the alpha threshold or is no kernel target of the visited pixel, and
\* gives every other pixel the value it would get if no target had been
\* skipped: the shares of the targets outside the grid and of those below
\* the threshold go nowhere.
DroppedError ==
  [][DiffusionVisit =>
       \A yy \in Rows, xx \in Cols :
         /\ (<< yy, xx >> # << y, x >> /\ (~Eligible(yy, xx) \/ KernelShares(yy, xx) = {}))
              => out'[yy][xx] = out[yy][xx]
         /\ Eligible(yy, xx) => out'[yy][xx] = UnskippedVisit[yy][xx + Reach]]_vars

\* the pixel (0, 0) of a 2 x 2 image has been visited at a strength other
\* than 0: its target (0, 1) is below the threshold and unchanged, others of
\* its targets are outside the grid, and its target (1, 0) has changed
DroppedErrorWitness ==
  /\ pc = "scan"
  /\ args.method \in DiffusionMethods
  /\ args.strength # RInt(0)
  /\ h = 2 /\ w = 2
  /\ visits = << << 0, 0 >> >>
  /\ ~Eligible(0, 1) /\ Eligible(1, 0)
  /\ out[0][1] = rgbChannels[0][1]
  /\ out[1][0] # rgbChannels[1][0]

\* the kernel table of the specification: the denominator of each method
TableDenom(m) ==
  CASE m = "floyd_steinberg" -> 16
    [] m = "jarvis" -> 48
    [] m = "stucki" -> 42
    [] m = "burkes" -> 32
    [] m = "atkinson" -> 8
    [] m = "sierra_lite" -> 4
    [] m = "sierra2" -> 16
    [] m = "sierra3" -> 32

\* the weights of each method in the order the table lists them
TableWeights(m) ==
  CASE m = "floyd_steinberg" -> << 7, 3, 5, 1 >>
    [] m = "jarvis" -> << 7, 5, 3, 5, 7, 5, 3, 1, 3, 5, 3, 1 >>
    [] m = "stucki" -> << 8, 4, 2, 4, 8, 4, 2, 1, 2, 4, 2, 1 >>
    [] m = "burkes" -> << 8, 4, 2, 4, 8, 4, 2 >>
    [] m = "atkinson" -> << 1, 1, 1, 1, 1, 1 >>
    [] m = "sierra_lite" -> << 2, 1, 1 >>
    [] m = "sierra2" -> << 4, 3, 1, 2, 3, 2, 1 >>
    [] m = "sierra3" -> << 5, 3, 2, 4, 5, 4, 2, 2, 3, 2 >>

\* the offsets << dx, dy >> of the methods whose offsets the table lists
TableOffsets(m) ==
  CASE m = "floyd_steinberg" -> << << 1, 0 >>, << -1, 1 >>, << 0, 1 >>, << 1, 1 >> >>
    [] m = "atkinson" ->
         << << 1, 0 >>, << 2, 0 >>, << -1, 1 >>, << 0, 1 >>, << 1, 1 >>, << 0, 2 >> >>
    [] m = "sierra_lite" -> << << 1, 0 >>, << -1, 1 >>, << 0, 1 >> >>

ListedOffsets == {"floyd_steinberg", "atkinson", "sierra_lite"}

\* the offsets of a table, in its order
Offsets(t) == [i \in 1..Len(t) |-> << t[i].dx, t[i].dy >>]

\* the offsets of a table that lie in row dy
InTableRow(t, dy) == { i \in 1..Len(t) : t[i].dy = dy }

\* a table in left-to-right form lists pixels that come after the current
\* one in a left-to-right scan, row by row from left to right
ReadingOrder(t) ==
  /\ \A i \in 1..Len(t) : t[i].dy > 0 \/ (t[i].dy = 0 /\ t[i].dx > 0)
  /\ \A i \in 1..(Len(t) - 1) :
       \/ t[i].dy < t[i + 1].dy
       \/ t[i].dy = t[i + 1].dy /\ t[i].dx < t[i + 1].dx

\* the left-to-right table of method m with its weights divided by its
\* denominator
KernelRight(m) ==
  IF m = "floyd_steinberg" THEN FloydSteinbergRight
  ELSE [i \in 1..Len(weightsRight(m)) |->
          NW(weightsRight(m)[i].dx, weightsRight(m)[i].dy,
             RatDivInt(weightsRight(m)[i].w, denom(m)))]

\* the table of method m for right-to-left rows, likewise
KernelLeft(m) ==
  IF m = "floyd_steinberg" THEN FloydSteinbergLeft
  ELSE [i \in 1..Len(weightsLeft(m)) |->
          NW(weightsLeft(m)[i].dx, weightsLeft(m)[i].dy,
             RatDivInt(weightsLeft(m)[i].w, denom(m)))]

\* the table a pass takes for a row scanned in direction ltr, likewise
KernelUsed(ltr) ==
  LET used == IF args.method = "floyd_steinberg" THEN floydSteinbergNeigh(ltr)
              ELSE errorDiffuseNeigh(ltr)
  IN  [i \in 1..Len(used) |->
         NW(used[i].dx, used[i].dy,
            IF args.method = "floyd_steinberg" THEN used[i].w
            ELSE RatDivInt(used[i].w, denom(args.method)))]

\* the left-to-right table of method m is the one of the specification: its
\* weights over its denominator in the listed order, its offsets where they
\* are listed, and the stated number of offsets and their rows otherwise
AsInTable(m) ==
  LET t == KernelRight(m)
  IN  /\ Len(t) = Len(TableWeights(m))
      /\ \A i \in 1..Len(t) : t[i].w = Rat(TableWeights(m)[i], TableDenom(m))
      /\ m # "floyd_steinberg" => denom(m) = TableDenom(m)
      /\ ReadingOrder(t)
      /\ m \in ListedOffsets => Offsets(t) = TableOffsets(m)
      /\ m = "jarvis" =>
           /\ Len(t) = 12
           /\ { t[i].dy : i \in 1..Len(t) } \ {0} = {1, 2}
      /\ m = "stucki" => Offsets(t) = Offsets(KernelRight("jarvis"))
      /\ m = "burkes" =>
           /\ Len(t) = 7
           /\ InTableRow(t, 0) = 1..2
           /\ InTableRow(t, 1) = 3..7
      /\ m = "sierra2" => Len(t) = 7
      /\ m = "sierra3" => Len(t) = 10

\* C17: the table of each of the eight diffusion methods has the offsets,
\* weights and denominator of the specification's table, the table for
\* right-to-left rows (for Floyd-Steinberg the one written out by hand) is
\* the left-to-right one with every dx negated and dy and weight unchanged,
\* and a pass takes the former on its left-to-right rows and the latter on
\* its right-to-left rows.
KernelTables ==
  (pc = "scan" /\ args.method \in DiffusionMethods /\ y < h) =>
    /\ AsInTable(args.method)
    /\ Len(KernelLeft(args.method)) = Len(KernelRight(args.method))
    /\ \A i \in 1..Len(KernelRight(args.method)) :
         /\ KernelLeft(args.method)[i].dx = -KernelRight(args.method)[i].dx
         /\ KernelLeft(args.method)[i].dy = KernelRight(args.method)[i].dy
         /\ KernelLeft(args.method)[i].w = KernelRight(args.method)[i].w
    /\ KernelUsed(leftToRight(y)) =
         IF RunsLeftToRight(y) THEN KernelRight(args.method) ELSE KernelLeft(args.method)

\* a serpentine Floyd-Steinberg pass is on the right-to-left row 1 and has
\* visited a pixel of it
KernelTablesWitness ==
  /\ pc = "scan"
  /\ args.method = "floyd_steinberg"
  /\ args.serpentine
  /\ y = 1 /\ x # xEnd(1)
  /\ visits # << >> /\ visits[Len(visits)][1] = 1

\* the evaluations of the guard !palette || palette.length === 0 since the
\* pass was entered: the guard is the first statement of
\* findClosestColorInPalette, so there is one at each lookup, and the passes
\* hold no test of the palette of their own
guardEvaluations == Len(visits)

\* C18: a pass over an empty palette evaluates the empty-palette condition
\* once, before its scan: it has been evaluated when the scan begins, and no
\* lookup of the scan evaluates it again.  The passes violate it: nothing is
\* tested before the scan and every lookup tests the palette anew.
EmptyPaletteCheckedOnce ==
  (pc \in {"scan", "done"} /\ Len(paletteHeap[args.palette]) = 0) =>
    guardEvaluations = 1

\* the scan of an ordered pass stands on an eligible pixel
OrderedVisit ==
  /\ InRow
  /\ args.method \in {"bayer", "halftone"}
  /\ Eligible(y, x)

\* v / N^2 - 1 / 2 for the entry v of the running method's matrix at
\* (yy mod N, xx mod N), N being 4 for Bayer and 8 for halftone
TiledNorm(yy, xx) ==
  IF args.method = "bayer"
  THEN Rat(2 * BayerMat[(yy % 4) + 1][(xx % 4) + 1] - 16, 32)
  ELSE Rat(2 * HalftoneMat[(yy % 8) + 1][(xx % 8) + 1] - 64, 128)

\* the pixel p with norm * intensity added to each of its channels
OffsetPixel(p, norm) ==
  [i \in 1..3 |-> RatAdd(p[i], RatMul(norm, RInt(args.intensity)))]

\* a normalised matrix entry lies in [-0.5, 0.5)
InHalfOpenUnit(norm) == ~RatLess(norm, Rat(-1, 2)) /\ RatLess(norm, Rat(1, 2))

\* C21: every entry of the two normalised matrices lies in [-0.5, 0.5); a
\* Bayer or halftone pass visiting an eligible pixel (x, y) stores the
\* result of the lookup of the pixel with
\* t = norm[y mod N][x mod N] * intensity added to each channel, unclamped: a
\* palette entry nearest to that value; it changes no other pixel, so the
\* adjusted value itself is nowhere in the grid.
OrderedOffsetAdded ==
  [][OrderedVisit =>
       /\ \A yy \in 0..3, xx \in 0..3 : InHalfOpenUnit(BayerNorm(yy, xx))
       /\ \A yy \in 0..7, xx \in 0..7 : InHalfOpenUnit(HalftoneNorm(yy, xx))
       /\ out'[y][x] = Lookup(OffsetPixel(out[y][x], TiledNorm(y, x))).color
       /\ Len(paletteHeap[args.palette]) > 0 =>
            out'[y][x] \in NearestEntries(OffsetPixel(out[y][x], TiledNorm(y, x)), args.palette)
       /\ \A yy \in Rows, xx \in Cols :
            << yy, xx >> # << y, x >> => out'[yy][xx] = out[yy][xx]]_vars

\* a halftone pass over the strip of one row has visited the pixel in
\* column 8, where the matrix is tiled a second time, and the offset made
\* the lookup return a colour that is not nearest to the input pixel
OrderedOffsetAddedWitness ==
  /\ pc = "scan"
  /\ args.method = "halftone"
  /\ h = 1 /\ w > 8
  /\ visits # << >> /\ visits[Len(visits)] = << 0, 8 >>
  /\ out[0][8] \in Colors(args.palette)
  /\ out[0][8] \notin NearestEntries(entry.rgb[0][8], args.palette)

\* the offset (dx, dy) points to a later row, or to a pixel of the same row
\* that a scan in direction ltr has yet to reach
Ahead(dx, dy, ltr) == dy > 0 \/ (dy = 0 /\ IF ltr THEN dx > 0 ELSE dx < 0)

\* the pixels a pass has quantised so far
Quantised == { visits[i] : i \in 1..Len(visits) }

\* C22: in a diffusion pass every target of the table taken for a row is on
\* a later row or on the same row ahead of the scan, for each of the eight
\* kernels and both directions; a pixel is not changed once it has been
\* quantised; so with a palette that is not empty every quantised pixel
\* holds a palette entry, and in the returned grid every pixel with alpha at
\* or above the threshold does.
TargetsAhead ==
  /\ []((pc = "scan" /\ args.method \in DiffusionMethods /\ y < h) =>
          /\ \A ltr \in BOOLEAN : \A i \in 1..Len(KernelUsed(ltr)) :
               Ahead(KernelUsed(ltr)[i].dx, KernelUsed(ltr)[i].dy, ltr)
          /\ leftToRight(y) = RunsLeftToRight(y))
  /\ [][args.method \in DiffusionMethods =>
          \A c \in Quantised : out'[c[1]][c[2]] = out[c[1]][c[2]]]_vars
  /\ []((args.method \in DiffusionMethods /\ Len(paletteHeap[args.palette]) > 0) =>
          /\ \A c \in Quantised : out[c[1]][c[2]] \in Colors(args.palette)
          /\ pc = "done" =>
               \A yy \in Rows, xx \in Cols :
                 Eligible(yy, xx) => out[yy][xx] \in Colors(args.palette))

\* a serpentine diffusion pass has returned an image at least two pixels
\* wide; every pixel it quantised holds a palette entry, and on a
\* right-to-left row the errors spread have changed what was found for a pixel
TargetsAheadWitness ==
  /\ pc = "done"
  /\ args.method \in DiffusionMethods
  /\ args.serpentine
  /\ w >= 2
  /\ Len(paletteHeap[args.palette]) > 0
  /\ \A c \in Quantised : out[c[1]][c[2]] \in Colors(args.palette)
  /\ \E c \in Quantised :
       /\ c[1] % 2 = 1
       /\ out[c[1]][c[2]] \notin NearestEntries(entry.rgb[c[1]][c[2]], args.palette)

\* what applyNoDithering returns for the grid, alpha and palette the running
\* pass was entered with: each eligible pixel looked up on its own
NoDitherOutput ==
  [yy \in Rows |->
     [xx \in Cols |->
        IF Eligible(yy, xx) THEN noDitherPixel(entry.rgb, xx, yy)[yy][xx]
        ELSE entry.rgb[yy][xx]]]

\* the input grid has its channels in 0 .. 255
InputInRange ==
  \A yy \in Rows, xx \in Cols : \A i \in 1..3 :
    ~RatLess(entry.rgb[yy][xx][i], RInt(0)) /\ ~RatLess(RInt(255), entry.rgb[yy][xx][i])

\* C23: a diffusion pass with strength 0 over a grid with channels in
\* 0 .. 255 spreads nothing: a pixel it has not quantised yet holds its input
\* value, a pixel it has quantised holds what applyNoDithering returns for
\* it, and the grid it returns is the grid applyNoDithering returns.
ZeroStrengthIsNoDither ==
  (pc \in {"scan", "done"} /\ args.method \in DiffusionMethods
     /\ args.strength = RInt(0) /\ InputInRange) =>
    /\ \A yy \in Rows, xx \in Cols :
         out[yy][xx] = IF << yy, xx >> \in Quantised THEN NoDitherOutput[yy][xx]
                       ELSE entry.rgb[yy][xx]
    /\ pc = "done" => out = NoDitherOutput

\* a serpentine diffusion pass with strength 0 has returned a grid of four
\* eligible pixels that differs from its input
ZeroStrengthIsNoDitherWitness ==
  /\ pc = "done"
  /\ args.method \in ErrorDiffuseMethods
  /\ args.strength = RInt(0)
  /\ args.serpentine
  /\ InputInRange
  /\ Len(visits) = 4
  /\ out = NoDitherOutput
  /\ out # entry.rgb

\* the Floyd-Steinberg table (1,0:7)(-1,1:3)(0,1:5)(1,1:1), to be used with
\* the denominator 16
FloydSteinbergTable == << N(1, 0, 7), N(-1, 1, 3), N(0, 1, 5), N(1, 1, 1) >>

\* the working grid of errorDiffuse, called with the Floyd-Steinberg table,
\* its mirrored table and the denominator 16, after it has visited the
\* pixels cells[i], cells[i + 1], ... from the working grid o
RECURSIVE EngineRun(_, _, _)
EngineRun(o, cells, i) ==
  IF i > Len(cells) THEN o
  ELSE LET yy == cells[i][1]
           xx == cells[i][2]
       IN  EngineRun(errorDiffuseWith(o, entry.alpha, xx, yy, Lookup(o[yy][xx]).color,
                                      IF RunsLeftToRight(yy) THEN FloydSteinbergTable
                                      ELSE MirrorTable(FloydSteinbergTable),
                                      16),
                     cells, i + 1)

\* C24: after every pixel applyFloydSteinbergDithering has visited, its
\* working grid is the one errorDiffuse has after visiting the same pixels
\* when called with the table (1,0:7)(-1,1:3)(0,1:5)(1,1:1), the mirrored
\* table and the denominator 16 on the same grid, alpha, palette, strength,
\* threshold and serpentine setting; so is the grid it returns.
FloydSteinbergIsEngine ==
  (pc \in {"scan", "done"} /\ args.method = "floyd_steinberg") =>
    /\ out = EngineRun(entry.rgb, visits, 1)
    /\ pc = "done" => out = EngineRun(entry.rgb, ScanCells(0), 1)

\* a serpentine Floyd-Steinberg pass at a strength other than 0 and 1 is on
\* the right-to-left row 1, has visited a pixel of it, and a pixel it has
\* yet to visit holds a value other than its input
FloydSteinbergIsEngineWitness ==
  /\ pc = "scan"
  /\ args.method = "floyd_steinberg"
  /\ args.serpentine
  /\ args.strength = RInt(3)
  /\ y = 1
  /\ visits # << >> /\ visits[Len(visits)][1] = 1
  /\ \E yy \in Rows, xx \in Cols :
       << yy, xx >> \notin Quantised /\ Eligible(yy, xx) /\ out[yy][xx] # entry.rgb[yy][xx]

\* the sum of the numbers of a sequence, from index i on
RECURSIVE SumFrom(_, _)
SumFrom(s, i) == IF i > Len(s) THEN RInt(0) ELSE RatAdd(s[i], SumFrom(s, i + 1))

\* the weights of a table
Weights(t) == [i \in 1..Len(t) |-> t[i].w]

\* what the weights of the running method's table sum to, over its
\* denominator: 3/4 for Atkinson (6 of 8), 1 for the other kernels
ShareSum == IF args.method = "atkinson" THEN Rat(3, 4) ELSE RInt(1)

\* the pixels of the grid g other than (yy, xx), in some order
OtherCells(g, yy, xx) ==
  LET H == Height(g)
      W == Width(g)
  IN  SelectSeq([k \in 1..(H * W) |-> << (k - 1) \div W, (k - 1) % W >>],
                LAMBDA c : c # << yy, xx >>)

\* what a visit of (yy, xx) that turns the grid before into the grid after
\* has added in all to channel i of the other pixels
TotalAdded(before, after, yy, xx, i) ==
  LET cells == OtherCells(before, yy, xx)
  IN  SumFrom([k \in 1..Len(cells) |->
                 RatSub(after[cells[k][1]][cells[k][2]][i], before[cells[k][1]][cells[k][2]][i])],
              1)

\* in the grid after, left by a visit of (yy, xx) with the table t and no
\* target skipped, every target is strictly between 0 and 255 on every
\* channel: no clamp has cut a value
NoSaturationIn(after, t, yy, xx) ==
  \A k \in 1..Len(t) : \A i \in 1..3 :
    /\ RatLess(RInt(0), after[yy + t[k].dy][xx + t[k].dx][i])
    /\ RatLess(after[yy + t[k].dy][xx + t[k].dx][i], RInt(255))

RatAbs(a) == << Abs(a[1]), a[2] >>

\* the error of a visit that found the colour q for a pixel of value c,
\* times the strength, on channel i
ScaledError(c, q, i) == RatMul(RatSub(c[i], q[i]), args.strength)

\* the visit of (y, x) with no target skipped adds the error times the
\* strength times the share sum in all, if no clamp cuts a value
UnskippedTotal ==
  LET before == PaddedOut
      after == UnskippedVisit
  IN  NoSaturationIn(after, KernelUsed(leftToRight(y)), y, x + Reach) =>
        \A i \in 1..3 :
          TotalAdded(before, after, y, x + Reach, i)
            = RatMul(ScaledError(out[y][x], after[y][x + Reach], i), ShareSum)

\* C25: the weights of the table of Floyd-Steinberg, Jarvis, Stucki, Burkes,
\* Sierra-Lite, Sierra-2 and Sierra-3 sum to the denominator, those of
\* Atkinson to 6 with the denominator 8, in either direction; so a visit all
\* of whose targets are in the grid and eligible and none of whose clamps
\* cuts a value adds error * strength in all to the other pixels on each
\* channel, 3/4 of it for Atkinson; and no visit adds more than
\* error * strength in absolute value.
WeightSums ==
  /\ []((pc = "scan" /\ args.method \in DiffusionMethods /\ y < h) =>
          /\ \A ltr \in BOOLEAN : SumFrom(Weights(KernelUsed(ltr)), 1) = ShareSum
          /\ args.method \in ErrorDiffuseMethods =>
               SumFrom(Weights(weightsRight(args.method)), 1)
                 = IF args.method = "atkinson" THEN RInt(6) ELSE RInt(denom(args.method))
          /\ args.method = "atkinson" => denom(args.method) = 8
          /\ DiffusionVisit => UnskippedTotal)
  /\ [][DiffusionVisit =>
          \A i \in 1..3 :
            ~RatLess(RatAbs(ScaledError(out[y][x], out'[y][x], i)),
                     RatAbs(TotalAdded(out, out', y, x, i)))]_vars

\* an Atkinson pass stands on an eligible pixel with a quantisation error
\* after an earlier visit; with no target skipped no clamp would cut a
\* value, and the visit would add 3/4 of the error in all, not all of it
WeightSumsWitness ==
  /\ DiffusionVisit
  /\ args.method = "atkinson"
  /\ args.strength = RInt(1)
  /\ visits # << >>
  /\ LET before == PaddedOut
         after == UnskippedVisit
     IN  /\ NoSaturationIn(after, KernelUsed(leftToRight(y)), y, x + Reach)
         /\ ScaledError(out[y][x], after[y][x + Reach], 1) # RInt(0)
         /\ TotalAdded(before, after, y, x + Reach, 1)
              = RatMul(ScaledError(out[y][x], after[y][x + Reach], 1), Rat(3, 4))

\* the rows 0 .. yy have been processed: the scan is at the end of row yy or
\* beyond, and every eligible pixel of these rows has been looked up
RowsProcessed(yy) ==
  /\ y > yy \/ (y = yy /\ x = xEnd(yy))
  /\ \A y2 \in 0..yy, xx \in Cols :
       Eligible(y2, xx) => \E i \in 1..Len(visits) : visits[i] = << y2, xx >>

\* C26: the values a pass of any method has passed to its callback, on a
\* grid of height 1 or more, never decrease and lie in (0, 1]; when the pass
\* has returned there is at least one and the last is 1; a value is passed
\* either for a row y, as (y + 1) / h when the rows 0 .. y have been
\* processed, or as the final 1 when all rows have been.
ProgressShape ==
  /\ []((pc \in {"scan", "done"} /\ args.progressCallback /\ h >= 1) =>
          /\ \A i \in 1..Len(progress) :
               RatLess(RInt(0), progress[i]) /\ ~RatLess(RInt(1), progress[i])
          /\ \A i \in 1..(Len(progress) - 1) : ~RatLess(progress[i + 1], progress[i])
          /\ pc = "done" => (Len(progress) >= 1 /\ progress[Len(progress)] = RInt(1)))
  /\ [][(progress' # progress /\ h >= 1) =>
          /\ args.progressCallback
          /\ Len(progress') = Len(progress) + 1
          /\ SubSeq(progress', 1, Len(progress)) = progress
          /\ \/ /\ y < h
                /\ RowsProcessed(y)
                /\ progress'[Len(progress')] = Rat(y + 1, h)
             \/ /\ y = h
                /\ RowsProcessed(h - 1)
                /\ pc' = "done"
                /\ progress'[Len(progress')] = RInt(1)]_vars

\* a Bayer pass with a callback over 100 rows of one pixel has returned
\* after the reports for the rows 0, 25, 50 and 75 and the final one
ProgressShapeWitness ==
  /\ pc = "done"
  /\ args.method = "bayer"
  /\ args.progressCallback
  /\ h = 100 /\ w = 1
  /\ progress = << Rat(1, 100), Rat(26, 100), Rat(51, 100), Rat(76, 100), RInt(1) >>

\* the side of the threshold matrix of an ordered pass
MatrixSide == IF args.method = "bayer" THEN 4 ELSE 8

\* the ordered pass of args.method on the pixel p with alpha al alone, placed
\* at row ry and column rx of the matrix
OrderedSingle(p, al, ry, rx) ==
  IF al < args.alphaThreshold THEN p
  ELSE Lookup(Adjusted(p, OrderedOffset(IF args.method = "bayer" THEN BayerNorm(ry, rx)
                                        ELSE HalftoneNorm(ry, rx)))).color

\* C8: each pixel of the result of a Bayer or halftone pass is what the pass
\* gives for the input pixel alone, with its alpha, at the residues of its
\* coordinates modulo the matrix side: no other pixel or alpha value counts.
OrderedStateless ==
  (pc = "done" /\ args.method \in {"bayer", "halftone"}) =>
    \A yy \in Rows : \A xx \in Cols :
      out[yy][xx] = OrderedSingle(entry.rgb[yy][xx], entry.alpha[yy][xx],
                                  yy % MatrixSide, xx % MatrixSide)

\* a finished halftone pass over a strip longer than the matrix: a pixel past
\* the first period was changed, and a pixel of the strip is below the threshold
OrderedStatelessWitness ==
  /\ pc = "done"
  /\ args.method = "halftone"
  /\ \E yy \in Rows : \E xx \in Cols :
       /\ (xx >= 8 \/ yy >= 8)
       /\ Eligible(yy, xx)
       /\ out[yy][xx] # entry.rgb[yy][xx]
  /\ \E yy \in Rows : \E xx \in Cols : ~Eligible(yy, xx)

MirrorGrid(g) ==
  [yy \in DOMAIN g |-> [xx \in DOMAIN g[yy] |-> g[yy][Width(g) - 1 - xx]]]

\* an odd row of a serpentine diffusion pass has just been scanned
OddRowScanned ==
  /\ pc = "scan"
  /\ args.method \in DiffusionMethods
  /\ args.serpentine
  /\ y < h
  /\ y % 2 = 1
  /\ x = xEnd(y)

\* C9: after the right-to-left scan of an odd row of a serpentine pass, the
\* working grid (the row and the rows below it) is the mirror image of what
\* the left-to-right scan with the right-hand table makes of the mirrored
\* working grid and mirrored alpha grid the row started from.
SerpentineSymmetry ==
  OddRowScanned =>
    MirrorGrid(out) = ScanRow(MirrorGrid(rowStart), MirrorGrid(alphaChannel), 0, y, TRUE)

\* row 1 of a grid of width 2 or more with a row below has been scanned right
\* to left: it changed, it left error in row 2, and the grid is not its own
\* mirror image
SerpentineSymmetryWitness ==
  /\ OddRowScanned
  /\ y = 1 /\ h >= 3 /\ w >= 2
  /\ out[1] # rowStart[1]
  /\ out[2] # rowStart[2]
  /\ MirrorGrid(out) # out
  /\ args.strength # RInt(0)

\* a diffusion pass over a 1 x 1 image with an eligible pixel has returned
SinglePixelDone ==
  /\ pc = "done"
  /\ args.method \in DiffusionMethods
  /\ h = 1 /\ w = 1
  /\ Eligible(0, 0)
  /\ Len(paletteHeap[args.palette]) > 0

\* C10: on a 1 x 1 image with an eligible pixel every diffusion method, at
\* every strength and in either scan order, returns a palette colour nearest
\* to the input pixel; for gray 128 with the palette black, white that is
\* white, the nearer of the two.
SinglePixelNearest ==
  SinglePixelDone =>
    /\ out[0][0] \in NearestEntries(entry.rgb[0][0], args.palette)
    /\ (entry.rgb[0][0] = Rgb(128, 128, 128) /\ paletteHeap[args.palette] = << Black, White >>)
         => /\ out[0][0] = White
            /\ LabDistance(entry.rgb[0][0], White) < LabDistance(entry.rgb[0][0], Black)

\* Floyd-Steinberg with strength 1 and no serpentine on the gray pixel with
\* the palette black, white has returned white
SinglePixelNearestWitness ==
  /\ SinglePixelDone
  /\ args.method = "floyd_steinberg"
  /\ args.strength = RInt(1)
  /\ ~args.serpentine
  /\ entry.rgb[0][0] = Rgb(128, 128, 128)
  /\ paletteHeap[args.palette] = << Black, White >>
  /\ out[0][0] = White

(***************************************************************************)
(* Properties of the lookups                                               *)
(***************************************************************************)
\* the distance the lookup recorded in lookup ranks colour c by
LookupDistance(c) ==
  IF lookup.def = 2 \/ lookup.mode = "rgb" THEN RgbDistance(c, lookup.pixel)
  ELSE IF lookup.mode = "compuphase" THEN RInt(CompuphaseDistance(c, lookup.pixel))
  ELSE RInt(deltaE76(rgbToLab(lookup.pixel), rgbToLab(c)))

LookedUpColors ==
  IF lookup.palette = NullPalette THEN << >> ELSE paletteHeap[lookup.palette]

\* C5: a lookup on a non-empty palette, by either definition and in each mode,
\* returns the entry of lowest index among those at minimal distance.
LookupMinimalFirst ==
  (lookup.def # 0 /\ Len(LookedUpColors) > 0) =>
    /\ ~lookup.threw
    /\ \E i \in 1..Len(LookedUpColors) :
         /\ lookup.color = LookedUpColors[i]
         /\ \A j \in 1..Len(LookedUpColors) :
              ~RatLess(LookupDistance(LookedUpColors[j]), LookupDistance(LookedUpColors[i]))
         /\ \A j \in 1..(i - 1) :
              RatLess(LookupDistance(LookedUpColors[i]), LookupDistance(LookedUpColors[j]))

\* a lookup that found two entries at the minimal distance and returned the first
LookupMinimalFirstWitness ==
  /\ lookup.def # 0
  /\ ~lookup.threw
  /\ \E i, j \in 1..Len(LookedUpColors) :
       /\ i < j
       /\ lookup.color = LookedUpColors[i]
       /\ LookedUpColors[j] # LookedUpColors[i]
       /\ LookupDistance(LookedUpColors[j]) = LookupDistance(LookedUpColors[i])

\* C6: every lookup on an empty or missing palette returns black and does not
\* raise.  The second definition violates it.
EmptyPaletteReturnsBlack ==
  (lookup.def # 0 /\ Len(LookedUpColors) = 0) =>
    (~lookup.threw /\ lookup.color = Black)

(***************************************************************************)
(* Properties of the compuphase lookups                                    *)
(***************************************************************************)
\* a colour whose channels are integers in 0 .. 255
ByteColor(c) == \A i \in 1..3 : c[i][2] = 1 /\ c[i][1] \in 0..255

\* the products the compuphase branch shifts right, and its three terms, for
\* the integer channels of pixel p and candidate c
RedProduct(p, c) == (512 + ((p[1][1] + c[1][1]) \div 2)) * (c[1][1] - p[1][1]) * (c[1][1] - p[1][1])

BlueProduct(p, c) == (767 - ((p[1][1] + c[1][1]) \div 2)) * (c[3][1] - p[3][1]) * (c[3][1] - p[3][1])

GreenTerm(p, c) == 4 * (c[2][1] - p[2][1]) * (c[2][1] - p[2][1])

\* (512 + rmean) * dr^2 / 256 + 4 * dg^2 + (767 - rmean) * db^2 / 256 with
\* rmean = (r_pixel + r_candidate) / 2, every division an integer division
RedmeanDistance(p, c) == (RedProduct(p, c) \div 256) + GreenTerm(p, c) + (BlueProduct(p, c) \div 256)

\* a value a signed 32-bit integer holds
InInt32(v) == v >= -2147483647 - 1 /\ v <= 2147483647

\* a compuphase lookup of a pixel with integer channels in 0 .. 255 with a
\* palette that is not empty
CompuphaseLookup ==
  /\ lookup.def = 1
  /\ lookup.mode = "compuphase"
  /\ Len(LookedUpColors) > 0
  /\ ByteColor(lookup.pixel)
  /\ \A i \in 1..Len(LookedUpColors) : ByteColor(LookedUpColors[i])

\* C20: a compuphase lookup of a pixel with integer channels in 0 .. 255
\* ranks every candidate by
\* (512 + rmean) * dr^2 / 256 + 4 * dg^2 + (767 - rmean) * db^2 / 256 with
\* rmean = (r_pixel + r_candidate) / 2 in integer arithmetic, no product, term
\* or sum of which leaves the signed 32-bit range, and returns the first
\* entry at which that distance is least.
CompuphaseRanking ==
  CompuphaseLookup =>
    /\ \A i \in 1..Len(LookedUpColors) :
         /\ CompuphaseDistance(LookedUpColors[i], lookup.pixel)
              = RedmeanDistance(lookup.pixel, LookedUpColors[i])
         /\ InInt32(RedProduct(lookup.pixel, LookedUpColors[i]))
         /\ InInt32(BlueProduct(lookup.pixel, LookedUpColors[i]))
         /\ InInt32(GreenTerm(lookup.pixel, LookedUpColors[i]))
         /\ InInt32(RedmeanDistance(lookup.pixel, LookedUpColors[i]))
    /\ ~lookup.threw
    /\ \E i \in 1..Len(LookedUpColors) :
         /\ lookup.color = LookedUpColors[i]
         /\ \A j \in 1..Len(LookedUpColors) :
              RedmeanDistance(lookup.pixel, LookedUpColors[i])
                <= RedmeanDistance(lookup.pixel, LookedUpColors[j])
         /\ \A j \in 1..(i - 1) :
              RedmeanDistance(lookup.pixel, LookedUpColors[i])
                < RedmeanDistance(lookup.pixel, LookedUpColors[j])

\* the compuphase lookup of magenta with the palette black, white has
\* returned white; the products for black are the largest a red and a blue
\* difference of 255 give at this mean
CompuphaseRankingWitness ==
  /\ CompuphaseLookup
  /\ lookup.pixel = Rgb(255, 0, 255)
  /\ LookedUpColors = << Black, White >>
  /\ lookup.color = White
  /\ RedProduct(lookup.pixel, Black) = 639 * 255 * 255
  /\ BlueProduct(lookup.pixel, Black) = 640 * 255 * 255
  /\ RedmeanDistance(lookup.pixel, White) = 4 * 255 * 255

(***************************************************************************)
(* Properties of the Lab cache                                             *)
(***************************************************************************)
\* the step is a call of findClosestColorInPalette (lookup' describes it)
\* and not a change of a palette's content
LookupStep == paletteHeap' = paletteHeap

LabLookupOf(pal) ==
  /\ LookupStep
  /\ lookup'.def = 1
  /\ lookup'.mode = "lab"
  /\ lookup'.palette = pal

\* the least index whose Lab value in labs is nearest to pixel
NearestLabIndex(pixel, labs) ==
  CHOOSE i \in 1..Len(labs) :
    /\ \A j \in 1..Len(labs) :
         deltaE76(rgbToLab(pixel), labs[i]) <= deltaE76(rgbToLab(pixel), labs[j])
    /\ \A j \in 1..(i - 1) :
         deltaE76(rgbToLab(pixel), labs[i]) < deltaE76(rgbToLab(pixel), labs[j])

\* C19: the Lab values of a palette object are computed from its content at
\* the first lab lookup made with it (and at no other step, and for no other
\* object), and are never changed afterwards, whatever is done to the
\* object's content; a lab lookup with an object that has an entry ranks by
\* the entry's values, returning the colour the object now holds at the
\* index of the nearest cached value (and failing if it holds none there);
\* rgb and compuphase lookups leave the cache as it is and return what they
\* return without any cache.
CacheKeyedByIdentity ==
  [][/\ \A pal \in PalIds :
          /\ paletteLabCache[pal].has => paletteLabCache'[pal] = paletteLabCache[pal]
          /\ (~paletteLabCache[pal].has /\ paletteLabCache'[pal].has) =>
               /\ LabLookupOf(pal)
               /\ paletteLabCache'[pal].labs = PaletteLabs(paletteHeap[pal])
          /\ (LabLookupOf(pal) /\ Len(paletteHeap[pal]) > 0) => paletteLabCache'[pal].has
          /\ (LabLookupOf(pal) /\ paletteLabCache[pal].has /\ Len(paletteHeap[pal]) > 0) =>
               LET i == NearestLabIndex(lookup'.pixel, paletteLabCache[pal].labs)
               IN  IF i > Len(paletteHeap[pal]) THEN lookup'.threw
                   ELSE ~lookup'.threw /\ lookup'.color = paletteHeap[pal][i]
     /\ (LookupStep /\ lookup'.mode \in {"rgb", "compuphase"}) =>
          /\ paletteLabCache' = paletteLabCache
          /\ lookup'.palette # NullPalette =>
               LET r == findClosestColorInPalette(lookup'.pixel, paletteHeap[lookup'.palette],
                                                  lookup'.mode, << >>)
               IN  lookup'.color = r.color /\ lookup'.threw = r.threw]_vars

\* the Lab values of palette object 1 were computed while it held black,
\* white; it now holds white, black, and the lab lookup of mid gray with it
\* has returned black, the colour now at the index of the nearest cached
\* value, where white is the colour now nearest; palette object 2, holding
\* black, white, has an entry of its own
CacheKeyedByIdentityWitness ==
  /\ paletteHeap[1] = << White, Black >>
  /\ paletteLabCache[1].has
  /\ paletteLabCache[1].labs = PaletteLabs(<< Black, White >>)
  /\ paletteLabCache[2].has
  /\ lookup.def = 1 /\ lookup.mode = "lab" /\ lookup.palette = 1
  /\ lookup.pixel = Rgb(128, 128, 128)
  /\ lookup.color = Black
  /\ NearestEntries(lookup.pixel, 1) = {White}

(***************************************************************************)
(* Properties of a session                                                 *)
(***************************************************************************)
\* the pass that returned had the inputs of the remembered one, by value
SameInputsAsPrev ==
  /\ pc = "done"
  /\ prev.set
  /\ prev.method = args.method
  /\ prev.colors = paletteHeap[args.palette]
  /\ prev.strength = args.strength
  /\ prev.intensity = args.intensity
  /\ prev.alphaThreshold = args.alphaThreshold
  /\ prev.serpentine = args.serpentine
  /\ prev.rgb = entry.rgb
  /\ prev.alpha = entry.alpha

Completes(i) ==
  /\ i \in 1..Len(inFlight)
  /\ inFlight' = SubSeq(inFlight, 1, i - 1) \o SubSeq(inFlight, i + 1, Len(inFlight))

\* what the page shows of the image: source, output, download button, view
Shown == << srcImageData, outputImageData, downloadBtnDisabled, viewState >>

\* the step has the effect of a successful load of file f
LoadedEffect(f) ==
  /\ srcImageData' = imageToImageData(f)
  /\ outputImageData' = Null
  /\ downloadBtnDisabled' = TRUE
  /\ viewState' = ViewReset

\* C27: a load that completes either sets the source to the file's image,
\* clears the output, disables the download button and resets the view to
\* zoom 1 and offsets 0, or (having failed) changes none of the four; the
\* output is always null or what a process() run over the current source
\* stores; and without a source no step stores an output or enables the
\* download button
LoadClearsOutput ==
  /\ [](/\ outputImageData # Null =>
             /\ srcImageData # Null
             /\ \E type \in PaletteTypes, s \in Settings :
                  outputImageData = ProcessOutput(type, s)
        /\ srcImageData = Null => outputImageData = Null)
  /\ [][/\ \A i \in 1..Len(inFlight) :
             Completes(i) => LoadedEffect(inFlight[i]) \/ UNCHANGED Shown
        /\ srcImageData = Null /\ srcImageData' = Null =>
             outputImageData' = Null /\ UNCHANGED downloadBtnDisabled]_vars

\* an image was loaded, processed and zoomed, and the load of the file
\* selected after it has failed: the output of the loaded image is still there
LoadClearsOutputWitness ==
  /\ srcImageData = imageToImageData("b.png")
  /\ outputImageData # Null
  /\ outputImageData.src = srcImageData
  /\ ~downloadBtnDisabled
  /\ viewState.zoom # RInt(1)
  /\ lastSelected = [file |-> "a.png", load |-> "failed"]
  /\ inFlight = << >>

\* the step is the Apply of the palette dialog with no box checked
AppliesEmptySelection ==
  /\ paletteDialog.open
  /\ paletteDialog.checked = {}
  /\ ~paletteDialog'.open
  /\ customPalette' # customPalette

\* C28: the custom palette is never empty, getActivePaletteHex answers a
\* list that is not empty for every palette type (an unknown one included),
\* every output was made with a palette that is not empty, and applying an
\* empty selection stores black and white
NeverEmptyPalette ==
  /\ [](/\ Len(customPalette) > 0
        /\ \A type \in PaletteTypes : Len(ActivePaletteHex(type)) > 0
        /\ Len(getPaletteAsRgb(getActivePaletteHex)) > 0
        /\ outputImageData # Null => Len(outputImageData.palette) > 0
        /\ createCustomPalette(<< >>) = BlackAndWhite)
  /\ [][AppliesEmptySelection => customPalette' = BlackAndWhite]_vars

\* an empty selection was applied, and process() ran with the custom palette:
\* the pass was handed black and white
NeverEmptyPaletteWitness ==
  /\ customPalette = BlackAndWhite
  /\ paletteType = "custom"
  /\ paletteDialog.checked = {}
  /\ outputImageData # Null
  /\ outputImageData.palette = << << 0, 0, 0 >>, << 255, 255, 255 >> >>

\* C29: once the loads have all completed, the one of the file selected
\* last among them having succeeded, the source is the image of that file
LastSelectionWins ==
  inFlight = << >> /\ lastSelected.load = "loaded" =>
    srcImageData = imageToImageData(lastSelected.file)

(***************************************************************************)
(* Properties of zipFiles                                                  *)
(***************************************************************************)
\* the bytes of the name of a file as the archive holds it
WrittenName(f) == Encode(ReplaceBackslashes(f.name))

\* 30 + name length + data length
LocalEntrySize(f) == 30 + Len(WrittenName(f)) + Len(f.data)

\* the number of files of the runs from k on
RECURSIVE FilesFrom(_, _)
FilesFrom(files, k) ==
  IF k > Len(files) THEN 0 ELSE files[k].count + FilesFrom(files, k + 1)

\* the sum of 30 + name length + data length over the files of the runs before k
RECURSIVE LocalSizeBefore(_, _)
LocalSizeBefore(files, k) ==
  IF k = 1 THEN 0
  ELSE LocalSizeBefore(files, k - 1) + files[k - 1].count * LocalEntrySize(files[k - 1])

\* the sum of 46 + name length over the files of the runs from k on
RECURSIVE CentralSizeFrom(_, _)
CentralSizeFrom(files, k) ==
  IF k > Len(files) THEN 0
  ELSE files[k].count * (46 + Len(WrittenName(files[k]))) + CentralSizeFrom(files, k + 1)

\* the file at position j of run k: its record's offset is the size of the
\* local entries before it, its central header repeats the offset and the
\* fields of its local header, and both say method 0 with equal sizes
EntryConsistent(files, records, k, j) ==
  LET lh == LocalHeader(records[k])
      ch == CentralHeader(records[k], j)
      before == LocalSizeBefore(files, k) + j * LocalEntrySize(files[k])
  IN  /\ RecordOffset(records[k], j) = before
      /\ Value32(ch.offset) = before
      /\ ch.crc = lh.crc
      /\ ch.compressed = lh.compressed /\ ch.uncompressed = lh.uncompressed
      /\ ch.dosTime = lh.dosTime /\ ch.dosDate = lh.dosDate
      /\ lh.method = 0 /\ ch.method = 0
      /\ lh.compressed = lh.uncompressed
      /\ Value32(lh.uncompressed) = Len(files[k].data)

\* every file of the list is consistent
EntriesConsistent(files, records) ==
  /\ Len(records) = Len(files)
  /\ \A k \in 1..Len(files) : \A j \in 0..(files[k].count - 1) :
       EntryConsistent(files, records, k, j)

\* the end record counts the files and places the central directory
EndRecordConsistent(files, eocd) ==
  /\ eocd.entries = FilesFrom(files, 1)
  /\ eocd.entriesOnDisk = FilesFrom(files, 1)
  /\ Value32(eocd.centralStart) = LocalSizeBefore(files, Len(files) + 1)
  /\ Value32(eocd.centralSize) = CentralSizeFrom(files, 1)

\* C30 as stated: for any list of files the archive zipFiles returns has
\* consistent entries and an end record whose counts are the number of
\* files, whose central directory start is the size of the local entries and
\* whose central directory size is the sum of 46 + name length
ZipLayoutConsistent ==
  zip.called =>
    /\ EntriesConsistent(zip.files, zip.archive.records)
    /\ EndRecordConsistent(zip.files, zip.archive.eocd)

\* C30 as amended: for any list of fewer than 65536 files, file i's record
\* has the offset that is the sum of 30 + name length + data length over the
\* files before it, its central header holds that offset and the CRC, sizes,
\* DOS time and DOS date of its local header, both headers say method 0 with
\* the compressed size equal to the uncompressed size, and the end record's
\* counts are the number of files, its central directory start the size of
\* all local entries and its central directory size the sum of 46 + name
\* length over all files
ZipLayoutConsistentBelowRange ==
  zip.called /\ FilesFrom(zip.files, 1) < Uint16Range =>
    /\ EntriesConsistent(zip.files, zip.archive.records)
    /\ EndRecordConsistent(zip.files, zip.archive.eocd)

\* an archive of two files of different names and data, the second one's
\* name with its two backslashes replaced: its entry begins after the first
ZipLayoutConsistentBelowRangeWitness ==
  /\ zip.called
  /\ Len(zip.files) = 2
  /\ zip.files[1] = [count |-> 1, name |-> << 97 >>, data |-> << 97, 98 >>,
                     date |-> [year |-> 2024, mon |-> 2, day |-> 29,
                               hrs |-> 13, min |-> 37, sec |-> 59]]
  /\ zip.files[2].count = 1
  /\ zip.files[2].name = << 100, 92, 92, 97 >>
  /\ zip.archive.records[2].offset = 33
  /\ zip.archive.records[2].nameBytes = << 100, 47, 97 >>
  /\ CentralHeader(zip.archive.records[2], 0).offset = << 33, 0 >>
  /\ zip.archive.eocd.entries = 2
  /\ zip.archive.eocd.centralStart = << 66 + Len(zip.files[2].data), 0 >>

====
